---- MODULE Spec2Model ----
(***************************************************************************)
(* State-machine model of the batch / resource-lifecycle layer of          *)
(* paddleocr-guide:                                                        *)
(*   examples/_common/utils.py      batch_process                          *)
(*   examples/_common/base.py       OCRContextManager,                     *)
(*                                  StructureContextManager, ocr_session   *)
(*   examples/basic/02_batch_ocr.py BatchOCR                               *)
(*   examples/basic/03_multilingual.py MultilingualOCR                     *)
(*   examples/_common/config.py     is_supported_language,                 *)
(*                                  normalize_language                     *)
(* The program is single-threaded.  One behaviour of the model exercises   *)
(* one unit (variable unit, fixed by Init); the units do not share state.  *)
(***************************************************************************)
EXTENDS Integers, Sequences, FiniteSets, TLC

\* ------------------------------------------------------------------------
\* Bounds of the model
\* ------------------------------------------------------------------------

\* longest item sequence handed to batch_process / found by process_directory
MaxItems == 3

\* ------------------------------------------------------------------------
\* Input alphabets
\* ------------------------------------------------------------------------

\* work items (paths); duplicates in a sequence are allowed
Items == {"a.png", "b.png"}

\* exception classes a processing function raises in the model
ExcTypes == {"ValueError", "OCRInitError", "OCRConfigError"}

\* on_error values of batch_process
Policies == {"continue", "stop", "raise"}

VARIABLES
    unit,               \* which unit this behaviour exercises
    \* ---- batch_process (utils.py) ----
    items,              \* argument items
    process_func,       \* argument process_func: what its k-th call does
    on_error,           \* argument on_error
    progress_callback,  \* argument progress_callback: absent / where it raises
    results,            \* local results
    errors,             \* local errors
    cb_calls,           \* history: arguments progress_callback was invoked with
    events,             \* history: the calls the loop made, in order
    \* ---- the call in progress, or the last one completed ----
    call,               \* name of the function or method called
    pc,                 \* control point of the call
    i,                  \* loop index of enumerate(..., 1); 0 before the loop
    calls,              \* history: positions process_func / predict was
                        \* invoked on during the call
    prev,               \* history: <<call, pc>> of the call before this one
    exc,                \* <<e>> when exception e left the call, else <<>>
    ret,                \* <<value>> when the call returned, else <<>>
    \* ---- lifecycle managers (base.py, 02_batch_ocr.py) ----
    ocr,                \* self.ocr / self.structure: engine handle, None = 0
    initialized,        \* self._initialized
    next_handle,        \* identity of the next engine the factory constructs
    released,           \* history: how often each engine was released
    seg_handles,        \* history: engines initialize() returned since the
                        \* last cleanup()
    seg_built,          \* history: engines the factory built since the last
                        \* cleanup()
    scope,              \* the with-block around the unit
    \* ---- BatchOCR.process_directory (02_batch_ocr.py) ----
    image_files,        \* local image_files
    predict,            \* what self.ocr.predict does on each image
    batch_result,       \* local batch_result
    \* ---- MultilingualOCR (03_multilingual.py) ----
    engine_cache,       \* self._engine_cache: language key -> engine
    got,                \* history: <<lang, engine>> for every engine
                        \* _get_or_create_engine(lang) returned since the
                        \* last cleanup()
    built,              \* history: <<key, engine>> for every engine the
                        \* factory built since the last cleanup()
    arg_lang,           \* history: the lang argument of the last call, if
                        \* the caller called _get_or_create_engine ("": it
                        \* called something else)
    detect,             \* auto_detect: its arguments (image_path as exists)
                        \* and locals all_results, best_result,
                        \* best_confidence
    disposed,           \* history: <<key, engine>> for every cached engine
                        \* cleanup() dropped
    \* ---- summary reports (utils.py, 02_batch_ocr.py) ----
    report,             \* the rendered summary the caller holds: the
                        \* renderer, its arguments and the dict it returned
    file,               \* the JSON file save_json writes and load_json reads
    loaded              \* what the last load_json returned (<<>>: nothing)

batchVars == <<items, process_func, on_error, progress_callback, results,
               errors, cb_calls, events>>

callVars == <<call, pc, exc, ret, i, calls, prev>>

lifeVars == <<ocr, initialized, next_handle, released, seg_handles, seg_built,
              scope>>

dirVars == <<image_files, predict, batch_result>>

multiVars == <<engine_cache, got, built, arg_lang, detect, disposed>>

reportVars == <<report, file, loaded>>

vars == <<unit, batchVars, callVars, lifeVars, dirVars, multiVars,
          reportVars>>

\* ------------------------------------------------------------------------
\* Exceptions (exceptions.py and the builtins the code names)
\* ------------------------------------------------------------------------

\* direct base class of an exception class
Base(t) ==
    CASE t = "OCRInitError" -> "OCRException"
      [] t = "OCRConfigError" -> "OCRException"
      [] t = "OCRFileNotFoundError" -> "OCRException"
      [] t = "OCRException" -> "Exception"
      [] t = "ValueError" -> "Exception"
      [] t = "ImportError" -> "Exception"
      [] t = "RuntimeError" -> "Exception"
      [] t = "Exception" -> "BaseException"
      [] OTHER -> "object"

RECURSIVE issubclass(_, _)
issubclass(t, c) ==
    IF t = c THEN TRUE
    ELSE IF t = "object" THEN FALSE
    ELSE issubclass(Base(t), c)

\* the exception object the k-th call of process_func raises; every call
\* raises its own object, so its message is identified by the call
ProcessExc(k) == [type |-> process_func[k], msg |-> k]

\* the exception object progress_callback raises at position k
CallbackExc(k) == [type |-> "CallbackError", msg |-> k]

\* the value the k-th call of process_func returns (opaque to the caller)
ProcessResult(k) == [item |-> items[k], call |-> k]

\* ------------------------------------------------------------------------
\* batch_process (utils.py 439-490)
\* ------------------------------------------------------------------------

\* a list that grows at the front instead of at the end
list_prepend(l, x) == <<x>> \o l

\* an append that keeps nothing under the "stop" policy
list_append_unless_stop(l, x) ==
    IF on_error = "stop" THEN l ELSE Append(l, x)

\* list.append
list_append(l, x) == Append(l, x)

\* "except Exception as e": which exceptions the handler catches
except_Exception(e) == issubclass(e.type, "Exception")

\* an error record that names every failure "Exception"
error_info_without_kind(item, e) ==
    [item |-> item, error |-> e.msg, error_type |-> "Exception"]

\* the error record built in the handler
error_info(item, e) ==
    [item |-> item, error |-> e.msg, error_type |-> e.type]

\* a handler that leaves the loop under "continue" as well
on_failure_continue_breaks(policy) ==
    IF policy = "raise" THEN "raise" ELSE "break"

\* a handler that goes on to the next item under "stop"
on_failure_stop_continues(policy) ==
    IF policy = "raise" THEN "raise" ELSE "next"

\* a handler that swallows the exception under "raise"
on_failure_raise_breaks(policy) ==
    IF policy = "continue" THEN "next" ELSE "break"

\* what the handler does after recording the error
on_failure(policy) ==
    IF policy = "stop" THEN "break"
    ELSE IF policy = "raise" THEN "raise"
    ELSE "next"

\* the behaviours of a progress callback over n items: absent, present and
\* never raising (raises_at = 0), present and raising at one position
CallbackBehaviours(n) ==
    {[present |-> FALSE, raises_at |-> 0]}
        \cup {[present |-> TRUE, raises_at |-> k] : k \in 0..n}


InitBatch ==
    /\ \E n \in 0..MaxItems :
        /\ items \in [1..n -> Items]
        /\ process_func \in [1..n -> {"ok"} \cup ExcTypes]
        /\ progress_callback \in CallbackBehaviours(n)
    /\ on_error \in Policies
    /\ results = <<>>
    /\ errors = <<>>
    /\ cb_calls = <<>>
    /\ events = <<>>

\* the batch_process variables of a behaviour that exercises another unit
NoBatch ==
    /\ items = <<>>
    /\ process_func = <<>>
    /\ progress_callback = [present |-> FALSE, raises_at |-> 0]
    /\ on_error = "continue"
    /\ results = <<>>
    /\ errors = <<>>
    /\ cb_calls = <<>>
    /\ events = <<>>

\* a loop body that calls process_func before the progress callback
loop_body_process_first(n) ==
    <<[op |-> "process_func", n |-> n], [op |-> "progress_callback", n |-> n]>>

\* the calls of one pass through the loop body, in program order
loop_body(n) ==
    <<[op |-> "progress_callback", n |-> n], [op |-> "process_func", n |-> n]>>

\* the calls iteration n makes: the callback only if one was given, and
\* nothing after a callback that raises
RECURSIVE body_events(_, _, _)
body_events(body, present, raises) ==
    IF body = <<>> THEN <<>>
    ELSE IF Head(body).op = "progress_callback"
      THEN IF ~present THEN body_events(Tail(body), present, raises)
           ELSE IF raises THEN <<Head(body)>>
           ELSE <<Head(body)>> \o body_events(Tail(body), present, raises)
    ELSE <<Head(body)>> \o body_events(Tail(body), present, raises)

\* one iteration of "for i, item in enumerate(items, 1)"
batch_process_iter ==
    /\ unit = "batch_process"
    /\ pc = "loop"
    /\ i < Len(items)
    /\ LET n == i + 1
           item == items[n]
           total == Len(items)
       IN
        /\ i' = n
        /\ cb_calls' = IF progress_callback.present
                         THEN list_append(cb_calls, <<n, total, item>>)
                         ELSE cb_calls
        /\ events' = events \o body_events(loop_body(n),
                                            progress_callback.present,
                                            progress_callback.raises_at = n)
        /\ IF progress_callback.present /\ progress_callback.raises_at = n
             THEN \* the callback is called outside the try block
                  /\ pc' = "raised"
                  /\ exc' = <<CallbackExc(n)>>
                  /\ UNCHANGED <<results, errors, calls>>
             ELSE /\ calls' = Append(calls, n)
                  /\ IF process_func[n] = "ok"
                       THEN /\ results' = list_append(results, ProcessResult(n))
                            /\ UNCHANGED <<errors, pc, exc>>
                       ELSE LET e == ProcessExc(n) IN
                            IF except_Exception(e)
                              THEN /\ errors' = list_append(errors, error_info(item, e))
                                   /\ UNCHANGED results
                                   /\ pc' = CASE on_failure(on_error) = "break" -> "after_loop"
                                              [] on_failure(on_error) = "raise" -> "raised"
                                              [] OTHER -> "loop"
                                   /\ exc' = IF on_failure(on_error) = "raise"
                                               THEN <<e>> ELSE exc
                              ELSE /\ pc' = "raised"
                                   /\ exc' = <<e>>
                                   /\ UNCHANGED <<results, errors>>
    /\ UNCHANGED <<unit, reportVars, items, process_func, on_error, progress_callback,
                   call, ret, prev, lifeVars, dirVars, multiVars>>

\* "return results, errors", after the loop ran out or after break
batch_process_return ==
    /\ unit = "batch_process"
    /\ \/ pc = "after_loop"
       \/ pc = "loop" /\ i = Len(items)
    /\ pc' = "returned"
    /\ ret' = <<[results |-> results, errors |-> errors]>>
    /\ UNCHANGED <<unit, reportVars, batchVars, call, exc, i, calls, prev, lifeVars,
                   dirVars, multiVars>>

NextBatch == batch_process_iter \/ batch_process_return

\* ------------------------------------------------------------------------
\* Lifecycle managers: OCRContextManager, StructureContextManager
\* (base.py) and BatchOCR (02_batch_ocr.py)
\* ------------------------------------------------------------------------

\* the engine factory (the PaddleOCR / PPStructureV3 constructor) builds at
\* most this many engines in one behaviour
MaxEngines == 3

Handles == 1..MaxEngines

\* what the engine constructor does when it is invoked
FactoryOutcomes == {"ok", "ImportError", "RuntimeError"}

ManagerUnits == {"OCRContextManager", "StructureContextManager", "BatchOCR"}

\* a call can start when no call is in progress
Idle == pc \in {"returned", "raised"}

\* OCRInitError(message, error_code=...) raised "from" cause
OCRInitError(code, cause) ==
    [type |-> "OCRInitError", msg |-> "init failed", error_code |-> code,
     cause |-> cause]

\* the manager object the methods act on
self == [ocr |-> ocr, initialized |-> initialized]

\* a freshly constructed manager (__init__)
NewManager == [ocr |-> 0, initialized |-> FALSE]

\* an initialize() that stores the engine and forgets to set the flag
InitBuilt_without_flag(h, value) ==
    [ocr |-> h, initialized |-> FALSE, built |-> h, exc |-> <<>>,
     ret |-> <<value>>]

\* the outcome of initialize(): the manager's fields afterwards, the engine
\* the factory built (0: none), the exception raised or the value returned
InitBuilt(h, value) ==
    [ocr |-> h, initialized |-> TRUE, built |-> h, exc |-> <<>>,
     ret |-> <<value>>]

InitKept(m, value) ==
    [ocr |-> m.ocr, initialized |-> m.initialized, built |-> 0, exc |-> <<>>,
     ret |-> <<value>>]

\* a failed initialize() that leaves the manager marked as initialized
InitFailed_marks_initialized(m, e) ==
    [ocr |-> m.ocr, initialized |-> TRUE, built |-> 0, exc |-> <<e>>,
     ret |-> <<>>]

InitFailed(m, e) ==
    [ocr |-> m.ocr, initialized |-> m.initialized, built |-> 0, exc |-> <<e>>,
     ret |-> <<>>]

\* an initialize() without the "already initialized" early return
initialize_rebuilds(m, f) ==
    IF f = "ok" THEN InitBuilt(next_handle, next_handle)
    ELSE IF issubclass(f, "ImportError")
      THEN InitFailed(m, OCRInitError("E103", f))
    ELSE InitFailed(m, OCRInitError("E101", f))

\* OCRContextManager.initialize; f is what the constructor does if invoked
OCRContextManager_initialize(m, f) ==
    IF m.initialized /\ m.ocr # 0 THEN InitKept(m, m.ocr)
    ELSE IF f = "ok" THEN InitBuilt(next_handle, next_handle)
    ELSE IF issubclass(f, "ImportError")
      THEN InitFailed(m, OCRInitError("E103", f))
    ELSE InitFailed(m, OCRInitError("E101", f))

\* StructureContextManager.initialize
StructureContextManager_initialize(m, f) ==
    IF m.initialized /\ m.ocr # 0 THEN InitKept(m, m.ocr)
    ELSE IF f = "ok" THEN InitBuilt(next_handle, next_handle)
    ELSE IF issubclass(f, "ImportError")
      THEN InitFailed(m, OCRInitError("E103", f))
    ELSE InitFailed(m, OCRInitError("E102", f))

\* BatchOCR.initialize: returns self
BatchOCR_initialize(m, f) ==
    IF m.initialized THEN InitKept(m, "self")
    ELSE IF f = "ok" THEN InitBuilt(next_handle, "self")
    ELSE IF issubclass(f, "ImportError")
      THEN InitFailed(m, OCRInitError("E103", f))
    ELSE InitFailed(m, OCRInitError("E101", f))

\* a cleanup() that drops the engine but keeps the reference in self.ocr
cleanup_keeps_handle(m) ==
    IF m.ocr # 0
      THEN [ocr |-> m.ocr, initialized |-> FALSE, release |-> m.ocr]
      ELSE [ocr |-> m.ocr, initialized |-> m.initialized, release |-> 0]

\* the outcome of cleanup(): the manager's fields afterwards and the engine
\* whose reference was dropped (0: none)
OCRContextManager_cleanup(m) ==
    IF m.ocr # 0
      THEN [ocr |-> 0, initialized |-> FALSE, release |-> m.ocr]
      ELSE [ocr |-> m.ocr, initialized |-> m.initialized, release |-> 0]

StructureContextManager_cleanup(m) ==
    IF m.ocr # 0
      THEN [ocr |-> 0, initialized |-> FALSE, release |-> m.ocr]
      ELSE [ocr |-> m.ocr, initialized |-> m.initialized, release |-> 0]

\* a BatchOCR.cleanup that drops the engine and leaves the flag set
BatchOCR_cleanup_keeps_flag(m) ==
    IF m.ocr # 0
      THEN [ocr |-> 0, initialized |-> m.initialized, release |-> m.ocr]
      ELSE [ocr |-> m.ocr, initialized |-> m.initialized, release |-> 0]

BatchOCR_cleanup(m) ==
    IF m.ocr # 0
      THEN [ocr |-> 0, initialized |-> FALSE, release |-> m.ocr]
      ELSE [ocr |-> m.ocr, initialized |-> m.initialized, release |-> 0]

\* method dispatch on the class of the unit
initialize(m, f) ==
    CASE unit = "StructureContextManager" -> StructureContextManager_initialize(m, f)
      [] unit = "BatchOCR" -> BatchOCR_initialize(m, f)
      [] OTHER -> OCRContextManager_initialize(m, f)

cleanup(m) ==
    CASE unit = "StructureContextManager" -> StructureContextManager_cleanup(m)
      [] unit = "BatchOCR" -> BatchOCR_cleanup(m)
      [] OTHER -> OCRContextManager_cleanup(m)

\* the state after an initialize() with outcome r
InitializeEffect(r) ==
    /\ r.built \in {0} \cup Handles
    /\ ocr' = r.ocr
    /\ initialized' = r.initialized
    /\ next_handle' = IF r.built # 0 THEN next_handle + 1 ELSE next_handle
    /\ seg_built' = IF r.built # 0 THEN seg_built + 1 ELSE seg_built
    /\ seg_handles' = IF r.exc = <<>> THEN seg_handles \cup {r.ocr}
                      ELSE seg_handles
    /\ UNCHANGED released

\* the state after a cleanup() with outcome r
CleanupEffect(r) ==
    /\ ocr' = r.ocr
    /\ initialized' = r.initialized
    /\ released' = IF r.release # 0
                     THEN [released EXCEPT ![r.release] = @ + 1]
                     ELSE released
    /\ seg_built' = 0
    /\ seg_handles' = {}
    /\ UNCHANGED next_handle

\* a BatchResult whose counters do not start at zero
BatchResult_nonzero(total) ==
    [total |-> total, success_count |-> 0, failed_count |-> 1,
     results |-> <<>>]

\* BatchResult() and ImageResult(...) of 02_batch_ocr.py; error = <<>> is None
BatchResult(total) ==
    [total |-> total, success_count |-> 0, failed_count |-> 0,
     results |-> <<>>]

ImageResult(path, text_count, error) ==
    [file_name |-> path, file_path |-> path, text_count |-> text_count,
     error |-> error]

is_success(r) == r.error = <<>>

NoScope ==
    [state |-> "outside", entered |-> FALSE, enter_calls |-> <<>>,
     exit_calls |-> <<>>, body_exc |-> <<>>, propagated |-> <<>>]

InitLife ==
    /\ ocr = 0
    /\ initialized = FALSE
    /\ next_handle = 1
    /\ released = [h \in Handles |-> 0]
    /\ seg_handles = {}
    /\ seg_built = 0
    /\ scope = NoScope

NoDir ==
    /\ image_files = <<>>
    /\ predict = <<>>
    /\ batch_result = BatchResult(0)

\* a call that is not process_directory leaves no directory run behind
ResetDir ==
    /\ image_files' = <<>>
    /\ predict' = <<>>
    /\ batch_result' = BatchResult(0)

\* the caller calls initialize()
call_initialize ==
    /\ unit \in ManagerUnits
    /\ Idle
    /\ \E f \in FactoryOutcomes :
        \E r \in {initialize(self, f)} :
        /\ InitializeEffect(r)
        /\ call' = "initialize"
        /\ prev' = <<call, pc>>
        /\ pc' = IF r.exc = <<>> THEN "returned" ELSE "raised"
        /\ exc' = r.exc
        /\ ret' = r.ret
    /\ i' = 0
    /\ calls' = <<>>
    /\ ResetDir
    /\ UNCHANGED <<unit, reportVars, batchVars, scope, multiVars>>

\* the caller calls cleanup()
call_cleanup ==
    /\ unit \in ManagerUnits
    /\ Idle
    /\ CleanupEffect(cleanup(self))
    /\ call' = "cleanup"
    /\ prev' = <<call, pc>>
    /\ pc' = "returned"
    /\ exc' = <<>>
    /\ ret' = <<"None">>
    /\ i' = 0
    /\ calls' = <<>>
    /\ ResetDir
    /\ UNCHANGED <<unit, reportVars, batchVars, scope, multiVars>>

\* ------------------------------------------------------------------------
\* Scoped acquisition: "with unit(...) as x: body" and ocr_session
\* ------------------------------------------------------------------------

\* exception classes the body of a with-block raises in the model
BodyExcTypes == {"ValueError", "OCRInitError"}

BodyExc(t) == [type |-> t, msg |-> "raised in body"]

\* the ways a body ends: normally (<<>>) or by raising
BodyEnds == {<<>>} \cup {<<BodyExc(t)>> : t \in BodyExcTypes}

\* an __exit__ that cleans up only when the body ended normally
ctx_exit_unless_raised(body_end) ==
    [cleanup |-> body_end = <<>>, suppress |-> FALSE]

\* __exit__(exc_type, exc_val, exc_tb) of OCRContextManager,
\* StructureContextManager, BatchOCR and MultilingualOCR: whether it calls
\* self.cleanup() and the value it returns (True suppresses the exception)
ctx_exit(body_end) == [cleanup |-> TRUE, suppress |-> FALSE]

\* the finally clause of ocr_session: whether it calls manager.cleanup()
session_finally(body_end) == [cleanup |-> TRUE, suppress |-> FALSE]

\* what reaches the caller of a with statement whose body ended with
\* body_end and whose exit returned suppress
Propagated(body_end, suppress) == IF suppress THEN <<>> ELSE body_end

\* with-statement entry: __enter__ of a manager class calls initialize();
\* when it raises, the block is not entered and __exit__ is not called
with_enter ==
    /\ unit \in ManagerUnits
    /\ Idle
    /\ scope.state # "body"
    /\ \E f \in FactoryOutcomes :
        \E r \in {initialize(self, f)} :
        /\ InitializeEffect(r)
        /\ call' = "__enter__"
        /\ prev' = <<call, pc>>
        /\ pc' = IF r.exc = <<>> THEN "returned" ELSE "raised"
        /\ exc' = r.exc
        /\ ret' = r.ret
        /\ scope' = [state |-> IF r.exc = <<>> THEN "body" ELSE "exited",
                     entered |-> r.exc = <<>>,
                     enter_calls |-> <<"initialize">>,
                     exit_calls |-> <<>>,
                     body_exc |-> <<>>,
                     propagated |-> r.exc]
    /\ i' = 0
    /\ calls' = <<>>
    /\ ResetDir
    /\ UNCHANGED <<unit, reportVars, batchVars, multiVars>>

\* the body ends (normally or by raising) and __exit__ runs
with_leave ==
    /\ unit \in ManagerUnits
    /\ Idle
    /\ scope.state = "body"
    /\ \E b \in BodyEnds :
        LET x == ctx_exit(b) IN
        /\ IF x.cleanup THEN CleanupEffect(cleanup(self))
           ELSE UNCHANGED <<ocr, initialized, released, seg_built,
                            seg_handles, next_handle>>
        /\ scope' = [scope EXCEPT
                        !.state = "exited",
                        !.exit_calls = IF x.cleanup THEN <<"cleanup">> ELSE <<>>,
                        !.body_exc = b,
                        !.propagated = Propagated(b, x.suppress)]
    /\ call' = "__exit__"
    /\ prev' = <<call, pc>>
    /\ pc' = "returned"
    /\ exc' = <<>>
    /\ ret' = <<"False">>
    /\ i' = 0
    /\ calls' = <<>>
    /\ ResetDir
    /\ UNCHANGED <<unit, reportVars, batchVars, multiVars>>

\* "with ocr_session(...) as ocr": a new OCRContextManager is built and
\* initialized inside try; finally runs also when initialize() raises
session_enter ==
    /\ unit = "ocr_session"
    /\ Idle
    /\ scope.state # "body"
    /\ \E f \in FactoryOutcomes :
        LET r == OCRContextManager_initialize(NewManager, f)
            x == session_finally(r.exc)
        IN
        /\ r.built \in {0} \cup Handles
        /\ next_handle' = IF r.built # 0 THEN next_handle + 1 ELSE next_handle
        /\ IF r.exc = <<>>
             THEN /\ ocr' = r.ocr
                  /\ initialized' = r.initialized
                  /\ seg_built' = 1
                  /\ seg_handles' = {r.ocr}
                  /\ UNCHANGED released
                  /\ scope' = [state |-> "body", entered |-> TRUE,
                               enter_calls |-> <<"initialize">>,
                               exit_calls |-> <<>>, body_exc |-> <<>>,
                               propagated |-> <<>>]
             ELSE /\ IF x.cleanup
                       THEN CleanupEffect(OCRContextManager_cleanup(
                                [ocr |-> r.ocr, initialized |-> r.initialized]))
                       ELSE UNCHANGED <<ocr, initialized, released, seg_built,
                                        seg_handles>>
                  /\ scope' = [state |-> "exited", entered |-> FALSE,
                               enter_calls |-> <<"initialize">>,
                               exit_calls |-> IF x.cleanup THEN <<"cleanup">>
                                              ELSE <<>>,
                               body_exc |-> <<>>,
                               propagated |-> Propagated(r.exc, x.suppress)]
        /\ call' = "ocr_session"
        /\ prev' = <<call, pc>>
        /\ pc' = IF r.exc = <<>> THEN "returned" ELSE "raised"
        /\ exc' = r.exc
        /\ ret' = r.ret
    /\ i' = 0
    /\ calls' = <<>>
    /\ ResetDir
    /\ UNCHANGED <<unit, reportVars, batchVars, multiVars>>

\* the body of "with ocr_session(...)" ends and the finally clause runs
session_leave ==
    /\ unit = "ocr_session"
    /\ Idle
    /\ scope.state = "body"
    /\ \E b \in BodyEnds :
        LET x == session_finally(b) IN
        /\ IF x.cleanup THEN CleanupEffect(OCRContextManager_cleanup(self))
           ELSE UNCHANGED <<ocr, initialized, released, seg_built,
                            seg_handles, next_handle>>
        /\ scope' = [scope EXCEPT
                        !.state = "exited",
                        !.exit_calls = IF x.cleanup THEN <<"cleanup">> ELSE <<>>,
                        !.body_exc = b,
                        !.propagated = Propagated(b, x.suppress)]
    /\ call' = "ocr_session"
    /\ prev' = <<call, pc>>
    /\ pc' = "returned"
    /\ exc' = <<>>
    /\ ret' = <<"None">>
    /\ i' = 0
    /\ calls' = <<>>
    /\ ResetDir
    /\ UNCHANGED <<unit, reportVars, batchVars, multiVars>>

\* ------------------------------------------------------------------------
\* BatchOCR.process_image and BatchOCR.process_directory (02_batch_ocr.py)
\* ------------------------------------------------------------------------

\* what self.ocr.predict does on an image: returns, or raises one of ExcTypes
PredictBehaviours == {"ok"} \cup ExcTypes

\* the exception predict raises on the k-th image when it behaves as p
PredictExc(p, k) == [type |-> p, msg |-> k]

\* "except Exception as e" of process_image
process_image_except(e) == issubclass(e.type, "Exception")

\* the ImageResult process_image returns for a failed image
failed_ImageResult(path, e) == ImageResult(path, 0, <<e.msg>>)

\* a process_image without the check of _initialized
process_image_unguarded(m, image_path, p, k) ==
    IF p = "ok"
      THEN [exc |-> <<>>, ret |-> <<ImageResult(image_path, 1, <<>>)>>,
            predicted |-> TRUE]
    ELSE IF process_image_except(PredictExc(p, k))
      THEN [exc |-> <<>>,
            ret |-> <<failed_ImageResult(image_path, PredictExc(p, k))>>,
            predicted |-> TRUE]
    ELSE [exc |-> <<PredictExc(p, k)>>, ret |-> <<>>, predicted |-> TRUE]

\* process_image(image_path) on manager m, predict behaving as p on this,
\* the k-th, image: the exception raised or the value returned, and whether
\* predict was invoked
BatchOCR_process_image(m, image_path, p, k) ==
    IF ~m.initialized
      THEN [exc |-> <<OCRInitError("E101", "None")>>, ret |-> <<>>,
            predicted |-> FALSE]
    ELSE IF p = "ok"
      THEN [exc |-> <<>>, ret |-> <<ImageResult(image_path, 1, <<>>)>>,
            predicted |-> TRUE]
    ELSE IF process_image_except(PredictExc(p, k))
      THEN [exc |-> <<>>,
            ret |-> <<failed_ImageResult(image_path, PredictExc(p, k))>>,
            predicted |-> TRUE]
    ELSE [exc |-> <<PredictExc(p, k)>>, ret |-> <<>>, predicted |-> TRUE]

\* the caller calls process_image(image_path)
call_process_image ==
    /\ unit = "BatchOCR"
    /\ Idle
    /\ \E image_path \in Items, p \in PredictBehaviours :
        \E r \in {BatchOCR_process_image(self, image_path, p, 1)} :
        /\ exc' = r.exc
        /\ ret' = r.ret
        /\ pc' = IF r.exc = <<>> THEN "returned" ELSE "raised"
        /\ calls' = IF r.predicted THEN <<1>> ELSE <<>>
    /\ call' = "process_image"
    /\ prev' = <<call, pc>>
    /\ i' = 0
    /\ ResetDir
    /\ UNCHANGED <<unit, reportVars, batchVars, lifeVars, multiVars>>

\* a recording that counts a failed image as a success as well
record_result_counts_both(b, result) ==
    IF is_success(result)
      THEN [b EXCEPT !.results = list_append(b.results, result),
                     !.success_count = b.success_count + 1]
      ELSE [b EXCEPT !.results = list_append(b.results, result),
                     !.success_count = b.success_count + 1,
                     !.failed_count = b.failed_count + 1]

\* the batch_result after the result of one image is recorded
record_result(b, result) ==
    IF is_success(result)
      THEN [b EXCEPT !.results = list_append(b.results, result),
                     !.success_count = b.success_count + 1]
      ELSE [b EXCEPT !.results = list_append(b.results, result),
                     !.failed_count = b.failed_count + 1]

\* process_directory(input_dir) up to the loop: the checks, find_images and
\* the early return for a directory without images
process_directory_start ==
    /\ unit = "BatchOCR"
    /\ Idle
    /\ image_files = <<>>
    /\ call' = "process_directory"
    /\ prev' = <<call, pc>>
    /\ i' = 0
    /\ calls' = <<>>
    /\ \E exists \in BOOLEAN, n \in 0..MaxItems :
       \E files \in [1..n -> Items], p \in [1..n -> PredictBehaviours] :
        /\ (initialized /\ exists) \/ n = 0
        /\ IF ~initialized
             THEN /\ pc' = "raised"
                  /\ exc' = <<OCRInitError("E101", "None")>>
                  /\ ret' = <<>>
                  /\ ResetDir
           ELSE IF ~exists
             THEN /\ pc' = "raised"
                  /\ exc' = <<[type |-> "OCRFileNotFoundError",
                               msg |-> "no such directory"]>>
                  /\ ret' = <<>>
                  /\ ResetDir
           ELSE IF files = <<>>
             THEN /\ pc' = "returned"
                  /\ exc' = <<>>
                  /\ ret' = <<BatchResult(0)>>
                  /\ ResetDir
           ELSE /\ pc' = "dir_loop"
                /\ exc' = <<>>
                /\ ret' = <<>>
                /\ image_files' = files
                /\ predict' = p
                /\ batch_result' = BatchResult(Len(files))
    /\ UNCHANGED <<unit, reportVars, batchVars, lifeVars, multiVars>>

\* one iteration of "for i, img_path in enumerate(image_files, 1)"
process_directory_iter ==
    /\ unit = "BatchOCR"
    /\ pc = "dir_loop"
    /\ i < Len(image_files)
    /\ \E n \in {i + 1} :
       \E r \in {BatchOCR_process_image(self, image_files[n], predict[n], n)} :
        /\ i' = n
        /\ calls' = IF r.predicted THEN Append(calls, n) ELSE calls
        /\ IF r.exc = <<>>
             THEN /\ batch_result' = record_result(batch_result, r.ret[1])
                  /\ UNCHANGED <<pc, exc>>
             ELSE /\ pc' = "raised"
                  /\ exc' = r.exc
                  /\ UNCHANGED batch_result
    /\ UNCHANGED <<unit, reportVars, batchVars, lifeVars, multiVars, call, ret, prev,
                   image_files, predict>>

\* "return batch_result" after the loop
process_directory_return ==
    /\ unit = "BatchOCR"
    /\ pc = "dir_loop"
    /\ i = Len(image_files)
    /\ pc' = "returned"
    /\ ret' = <<batch_result>>
    /\ UNCHANGED <<unit, reportVars, batchVars, lifeVars, dirVars, multiVars, call, exc, i,
                   calls, prev>>

\* ------------------------------------------------------------------------
\* Language codes (config.py)
\* ------------------------------------------------------------------------

\* the keys of SUPPORTED_LANGUAGES
SUPPORTED_LANGUAGES ==
    {"ch", "chinese_cht", "en", "japan", "korean", "french", "german",
     "italian", "spanish", "portuguese", "russian", "uk", "be", "te", "ka",
     "ta", "latin", "arabic", "fa", "ug", "hi", "mr", "ne", "th", "vi", "ms",
     "id", "cyrillic", "devanagari"}

LANGUAGE_ALIASES ==
    [chinese |-> "ch", english |-> "en", japanese |-> "japan",
     korea |-> "korean", de |-> "german", fr |-> "french", es |-> "spanish",
     pt |-> "portuguese", ru |-> "russian", ar |-> "arabic"]

\* the language arguments callers pass in the model: codes, aliases, case
\* variants of both, and an unknown language
LangInputs == {"ch", "chinese", "CH", "Chinese", "en", "xx"}

\* str.lower on the strings of LangInputs
lower(s) ==
    CASE s = "CH" -> "ch"
      [] s = "Chinese" -> "chinese"
      [] OTHER -> s

\* a validation that accepts every string
is_supported_language_accepts_all(lang) == TRUE

\* is_supported_language(lang)
is_supported_language(lang) ==
    IF lang \in SUPPORTED_LANGUAGES THEN TRUE
    ELSE IF lang \in DOMAIN LANGUAGE_ALIASES THEN TRUE
    ELSE FALSE

\* normalize_language: the code returned, or the ValueError raised
normalize_language(lang) ==
    LET lang_lower == lower(lang) IN
    IF lang_lower \in SUPPORTED_LANGUAGES
      THEN [exc |-> <<>>, ret |-> <<lang_lower>>]
    ELSE IF lang \in SUPPORTED_LANGUAGES
      THEN [exc |-> <<>>, ret |-> <<lang>>]
    ELSE IF lang_lower \in DOMAIN LANGUAGE_ALIASES
      THEN [exc |-> <<>>, ret |-> <<LANGUAGE_ALIASES[lang_lower]>>]
    ELSE IF lang \in DOMAIN LANGUAGE_ALIASES
      THEN [exc |-> <<>>, ret |-> <<LANGUAGE_ALIASES[lang]>>]
    ELSE [exc |-> <<[type |-> "ValueError", msg |-> "unsupported language"]>>,
          ret |-> <<>>]

\* ------------------------------------------------------------------------
\* MultilingualOCR (03_multilingual.py)
\* ------------------------------------------------------------------------

\* the empty dict
EmptyCache == [k \in {} |-> 0]

\* an engine that is built and handed out but not stored
cache_put_nothing(cache, key, engine) == cache

\* self._engine_cache[key] = engine
cache_put(cache, key, engine) ==
    [k \in DOMAIN cache \cup {key} |-> IF k = key THEN engine ELSE cache[k]]

\* a cache keyed by the language argument as given
cache_key_as_given(lang, normalized_lang) == lang

\* the key _get_or_create_engine looks up and stores the engine under
cache_key(lang, normalized_lang) == normalized_lang

OCRConfigError ==
    [type |-> "OCRConfigError", msg |-> "unsupported language",
     error_code |-> "E401"]

\* a _get_or_create_engine that stores an entry before the constructor
\* has returned, and leaves it there when the constructor raises
get_or_create_engine_caches_early(cache, lang, f) ==
    IF ~is_supported_language(lang)
      THEN [cache |-> cache, built |-> 0, key |-> "", exc |-> <<OCRConfigError>>,
            ret |-> <<>>]
    ELSE LET n == normalize_language(lang) IN
    IF n.exc # <<>>
      THEN [cache |-> cache, built |-> 0, key |-> "", exc |-> n.exc,
            ret |-> <<>>]
    ELSE LET key == cache_key(lang, n.ret[1]) IN
    IF key \in DOMAIN cache
      THEN [cache |-> cache, built |-> 0, key |-> key, exc |-> <<>>,
            ret |-> <<cache[key]>>]
    ELSE IF f = "ok"
      THEN [cache |-> cache_put(cache, key, next_handle),
            built |-> next_handle, key |-> n.ret[1], exc |-> <<>>,
            ret |-> <<next_handle>>]
    ELSE IF issubclass(f, "ImportError")
      THEN [cache |-> cache_put(cache, key, 0), built |-> 0, key |-> key,
            exc |-> <<OCRInitError("E103", f)>>, ret |-> <<>>]
    ELSE [cache |-> cache_put(cache, key, 0), built |-> 0, key |-> key,
          exc |-> <<OCRInitError("E101", f)>>, ret |-> <<>>]

\* _get_or_create_engine(lang) on the cache, f being what the constructor
\* does if invoked: the cache afterwards, the engine built (0: none) and the
\* key it was built for, the exception raised or the engine returned
MultilingualOCR_get_or_create_engine(cache, lang, f) ==
    IF ~is_supported_language(lang)
      THEN [cache |-> cache, built |-> 0, key |-> "", exc |-> <<OCRConfigError>>,
            ret |-> <<>>]
    ELSE LET n == normalize_language(lang) IN
    IF n.exc # <<>>
      THEN [cache |-> cache, built |-> 0, key |-> "", exc |-> n.exc,
            ret |-> <<>>]
    ELSE LET key == cache_key(lang, n.ret[1]) IN
    IF key \in DOMAIN cache
      THEN [cache |-> cache, built |-> 0, key |-> key, exc |-> <<>>,
            ret |-> <<cache[key]>>]
    ELSE IF f = "ok"
      THEN [cache |-> cache_put(cache, key, next_handle),
            built |-> next_handle, key |-> n.ret[1], exc |-> <<>>,
            ret |-> <<next_handle>>]
    ELSE IF issubclass(f, "ImportError")
      THEN [cache |-> cache, built |-> 0, key |-> key,
            exc |-> <<OCRInitError("E103", f)>>, ret |-> <<>>]
    ELSE [cache |-> cache, built |-> 0, key |-> key,
          exc |-> <<OCRInitError("E101", f)>>, ret |-> <<>>]

\* auto_detect is not running: no arguments, no locals
NoDetect ==
    [candidates |-> <<>>, min_confidence |-> 0, exists |-> TRUE,
     all_results |-> <<>>, best_result |-> <<>>,
     best_confidence |-> [num |-> 0, den |-> 1]]

\* the state after a _get_or_create_engine(lang) with outcome g
GetOrCreateEffect(lang, g) ==
    /\ g.built \in {0} \cup Handles
    /\ engine_cache' = g.cache
    /\ next_handle' = IF g.built # 0 THEN next_handle + 1 ELSE next_handle
    /\ got' = IF g.exc = <<>> THEN got \cup {<<lang, g.ret[1]>>} ELSE got
    /\ built' = IF g.built # 0 THEN built \cup {<<g.key, g.built>>} ELSE built
    /\ arg_lang' = lang
    /\ detect' = NoDetect
    /\ UNCHANGED disposed
    /\ UNCHANGED <<ocr, initialized, released, seg_handles, seg_built>>

\* what engine.predict does in recognize: raises an exception of a class
\* (raises # "ok"), or returns text lines with these confidences (percent)
RecognizePredicts ==
    {[raises |-> t, scores |-> <<>>] : t \in ExcTypes}
        \cup {[raises |-> "ok", scores |-> s] :
                s \in {<<>>, <<0>>, <<90>>, <<80, 100>>, <<100>>}}

\* predict finds no text
NoText == [raises |-> "ok", scores |-> <<>>]

RECURSIVE SeqSum(_)
SeqSum(s) == IF s = <<>> THEN 0 ELSE Head(s) + SeqSum(Tail(s))

\* format_ocr_result(result, min_confidence=...): the lines kept
format_ocr_result(scores, min_confidence) ==
    SelectSeq(scores, LAMBDA c : ~(c < min_confidence))

\* a result that does not say which language it is for
LanguageResult_anonymous(lang, texts, error) ==
    [language_code |-> "",
     texts |-> texts,
     average_confidence |-> IF texts # <<>>
                              THEN [num |-> SeqSum(texts), den |-> Len(texts)]
                              ELSE [num |-> 0, den |-> 1],
     text_count |-> Len(texts),
     error |-> error]

\* LanguageResult(...); average_confidence is the exact quotient num/den
LanguageResult(lang, texts, error) ==
    [language_code |-> lang,
     texts |-> texts,
     average_confidence |-> IF texts # <<>>
                              THEN [num |-> SeqSum(texts), den |-> Len(texts)]
                              ELSE [num |-> 0, den |-> 1],
     text_count |-> Len(texts),
     error |-> error]

\* handlers that let every exception leave recognize
recognize_handler_reraises(cache, blt, key, lang, e, predicted) ==
    [cache |-> cache, built |-> blt, key |-> key, exc |-> <<e>>,
     ret |-> <<>>, predicted |-> predicted, engine |-> <<>>]

\* the handlers of recognize: "except OCRException: raise", then
\* "except Exception as e: return LanguageResult(error=str(e))"
recognize_handler(cache, blt, key, lang, e, predicted) ==
    IF issubclass(e.type, "OCRException")
      THEN [cache |-> cache, built |-> blt, key |-> key, exc |-> <<e>>,
            ret |-> <<>>, predicted |-> predicted, engine |-> <<>>]
    ELSE IF issubclass(e.type, "Exception")
      THEN [cache |-> cache, built |-> blt, key |-> key, exc |-> <<>>,
            ret |-> <<LanguageResult(lang, <<>>, <<e.msg>>)>>,
            predicted |-> predicted, engine |-> <<>>]
    ELSE [cache |-> cache, built |-> blt, key |-> key, exc |-> <<e>>,
          ret |-> <<>>, predicted |-> predicted, engine |-> <<>>]

\* recognize(image_path, lang=..., min_confidence=...): exists says whether
\* image_path exists, f what the constructor does, p what predict does
MultilingualOCR_recognize(cache, exists, lang, min_confidence, f, p) ==
    IF ~exists
      THEN [cache |-> cache, built |-> 0, key |-> "",
            exc |-> <<[type |-> "OCRFileNotFoundError",
                       msg |-> "no such image"]>>,
            ret |-> <<>>, predicted |-> FALSE, engine |-> <<>>]
    ELSE LET g == MultilingualOCR_get_or_create_engine(cache, lang, f) IN
    IF g.exc # <<>>
      THEN recognize_handler(g.cache, g.built, g.key, lang, g.exc[1], FALSE)
    ELSE IF p.raises # "ok"
      THEN [recognize_handler(g.cache, g.built, g.key, lang,
                              [type |-> p.raises, msg |-> p.raises],
                              TRUE)
              EXCEPT !.engine = g.ret]
    ELSE [cache |-> g.cache, built |-> g.built, key |-> g.key, exc |-> <<>>,
          ret |-> <<LanguageResult(lang,
                        format_ocr_result(p.scores, min_confidence), <<>>)>>,
          predicted |-> TRUE, engine |-> g.ret]

\* the state after a recognize(lang=lang) with outcome r
RecognizeEffect(lang, r) ==
    /\ r.built \in {0} \cup Handles
    /\ engine_cache' = r.cache
    /\ next_handle' = IF r.built # 0 THEN next_handle + 1 ELSE next_handle
    /\ got' = IF r.engine # <<>> THEN got \cup {<<lang, r.engine[1]>>} ELSE got
    /\ built' = IF r.built # 0 THEN built \cup {<<r.key, r.built>>} ELSE built
    /\ arg_lang' = ""
    /\ UNCHANGED disposed
    /\ UNCHANGED <<ocr, initialized, released, seg_handles, seg_built>>

\* a cleanup that clears the dict and drops no engine
cleanup_releases_nothing(cache) == [cache |-> EmptyCache, release |-> {}]

\* a cleanup that drops the engines and leaves them in the dict
cleanup_without_clear(cache) ==
    [cache |-> cache, release |-> {cache[k] : k \in DOMAIN cache}]

\* MultilingualOCR.cleanup: every cached engine is dropped, the dict cleared
MultilingualOCR_cleanup(cache) ==
    [cache |-> EmptyCache, release |-> {cache[k] : k \in DOMAIN cache}]

MultiCleanupEffect(r) ==
    /\ engine_cache' = r.cache
    /\ released' = [h \in Handles |->
                        IF h \in r.release THEN released[h] + 1 ELSE released[h]]
    /\ got' = {}
    /\ built' = {}
    /\ arg_lang' = ""
    /\ detect' = NoDetect
    /\ disposed' = disposed \cup {<<k, engine_cache[k]>> : k \in DOMAIN engine_cache}
    /\ UNCHANGED <<ocr, initialized, next_handle, seg_handles, seg_built>>

InitMulti ==
    /\ engine_cache = EmptyCache
    /\ got = {}
    /\ built = {}
    /\ arg_lang = ""
    /\ detect = NoDetect
    /\ disposed = {}

\* the behaviours of a MultilingualOCR object are explored in two parts:
\* cache access and with-blocks ("MultilingualOCR"), and language detection
\* ("auto_detect"); recognize and cleanup are called in both
MultiUnits == {"MultilingualOCR", "auto_detect"}

\* the caller still holds the LanguageResult or AutoDetectResult the last
\* call returned
ResultHeld ==
    call \in {"recognize", "auto_detect"} /\ pc = "returned" /\ ret # <<>>

\* no call of the MultilingualOCR object is running
MultiIdle == Idle /\ ~ResultHeld

\* what the constructor can do in a call that reaches it: it is reached
\* only for a supported language whose key is not cached
ConstructorChoices(exists, lang) ==
    IF exists /\ is_supported_language(lang)
        /\ normalize_language(lang).ret[1] \notin DOMAIN engine_cache
      THEN FactoryOutcomes
      ELSE {"ok"}

\* what predict can do in a call that reaches it: it is reached only when
\* an engine was obtained
PredictChoices(exists, lang, f) ==
    IF exists /\ is_supported_language(lang) /\ f = "ok"
      THEN RecognizePredicts
      ELSE {NoText}

\* the caller calls _get_or_create_engine(lang)
call_get_or_create_engine ==
    /\ unit = "MultilingualOCR"
    /\ MultiIdle
    /\ \E lang \in LangInputs :
       \E f \in ConstructorChoices(TRUE, lang) :
        \E g \in {MultilingualOCR_get_or_create_engine(engine_cache, lang, f)} :
        /\ GetOrCreateEffect(lang, g)
        /\ call' = "_get_or_create_engine"
        /\ prev' = <<call, pc>>
        /\ pc' = IF g.exc = <<>> THEN "returned" ELSE "raised"
        /\ exc' = g.exc
        /\ ret' = g.ret
    /\ i' = 0
    /\ calls' = <<>>
    /\ UNCHANGED <<unit, reportVars, batchVars, dirVars, scope>>

\* the caller calls recognize(image_path, lang=lang)
call_recognize ==
    /\ unit \in MultiUnits
    /\ MultiIdle
    /\ \E exists \in BOOLEAN, lang \in LangInputs :
       \E f \in ConstructorChoices(exists, lang) :
       \E p \in PredictChoices(exists, lang, f) :
       \E min_confidence \in IF p.scores = <<>> THEN {0} ELSE {0, 90} :
        \E r \in {MultilingualOCR_recognize(engine_cache, exists, lang,
                                           min_confidence, f, p)} :
        /\ RecognizeEffect(lang, r)
        /\ detect' = NoDetect
        /\ call' = "recognize"
        /\ prev' = <<call, pc>>
        /\ pc' = IF r.exc = <<>> THEN "returned" ELSE "raised"
        /\ exc' = r.exc
        /\ ret' = r.ret
        /\ calls' = IF r.predicted THEN <<1>> ELSE <<>>
    /\ i' = 0
    /\ UNCHANGED <<unit, reportVars, batchVars, dirVars, scope>>

\* ------------------------------------------------------------------------
\* MultilingualOCR.auto_detect (03_multilingual.py 330-387)
\* ------------------------------------------------------------------------

\* longest candidates list handed to auto_detect
MaxCandidates == 2

\* the language strings the candidates are drawn from
CandidateLangs == {"ch", "en", "xx"}

\* LanguageResult.is_success
LanguageResult_is_success(r) == r.error = <<>> /\ r.text_count > 0

\* a comparison that also holds for equal confidences
confidence_ge(a, b) == a.num * b.den >= b.num * a.den

\* "result.average_confidence > best_confidence", on exact quotients
confidence_gt(a, b) == a.num * b.den > b.num * a.den

\* AutoDetectResult(best_match=..., all_results=...); <<>> is None
AutoDetectResult(best_match, all_results) ==
    [best_match |-> best_match, all_results |-> all_results]

\* AutoDetectResult.detected_language
detected_language(r) ==
    IF r.best_match # <<>> THEN <<r.best_match[1].language_code>> ELSE <<>>

\* a loop body that takes the first successful candidate as best whatever
\* its confidence
auto_detect_update_first_success(d, result) ==
    IF LanguageResult_is_success(result)
        /\ (d.best_result = <<>>
                \/ confidence_gt(result.average_confidence, d.best_confidence))
      THEN [d EXCEPT !.all_results = list_append(d.all_results, result),
                     !.best_confidence = result.average_confidence,
                     !.best_result = <<result>>]
      ELSE [d EXCEPT !.all_results = list_append(d.all_results, result)]

\* the loop body of auto_detect after "result = self.recognize(...)"
auto_detect_update(d, result) ==
    IF LanguageResult_is_success(result)
        /\ confidence_gt(result.average_confidence, d.best_confidence)
      THEN [d EXCEPT !.all_results = list_append(d.all_results, result),
                     !.best_confidence = result.average_confidence,
                     !.best_result = <<result>>]
      ELSE [d EXCEPT !.all_results = list_append(d.all_results, result)]

\* auto_detect(image_path, candidates=..., min_confidence=...) up to the loop
auto_detect_start ==
    /\ unit = "auto_detect"
    /\ MultiIdle
    /\ \E n \in 0..MaxCandidates :
       \E cs \in [1..n -> CandidateLangs], exists \in BOOLEAN,
          min_confidence \in {0, 90} :
        /\ exists \/ min_confidence = 0
        /\ detect' = [NoDetect EXCEPT !.candidates = cs,
                                      !.min_confidence = min_confidence,
                                      !.exists = exists]
    /\ call' = "auto_detect"
    /\ prev' = <<call, pc>>
    /\ pc' = "detect_loop"
    /\ exc' = <<>>
    /\ ret' = <<>>
    /\ i' = 0
    /\ calls' = <<>>
    /\ arg_lang' = ""
    /\ UNCHANGED <<unit, reportVars, batchVars, dirVars, lifeVars, engine_cache, got,
                   built, disposed>>

\* one iteration of "for lang in candidates"
auto_detect_iter ==
    /\ unit = "auto_detect"
    /\ pc = "detect_loop"
    /\ i < Len(detect.candidates)
    /\ \E n \in {i + 1} :
       \E f \in ConstructorChoices(detect.exists, detect.candidates[n]) :
       \E p \in PredictChoices(detect.exists, detect.candidates[n], f) :
       \E r \in {MultilingualOCR_recognize(engine_cache, detect.exists,
                     detect.candidates[n], detect.min_confidence, f, p)} :
        /\ RecognizeEffect(detect.candidates[n], r)
        /\ i' = n
        /\ calls' = IF r.predicted THEN Append(calls, n) ELSE calls
        /\ IF r.exc = <<>>
             THEN /\ detect' = auto_detect_update(detect, r.ret[1])
                  /\ UNCHANGED <<pc, exc>>
             ELSE /\ pc' = "raised"
                  /\ exc' = r.exc
                  /\ detect' = NoDetect
    /\ UNCHANGED <<unit, reportVars, batchVars, dirVars, scope, call, ret, prev>>

\* "return AutoDetectResult(best_match=best_result, all_results=all_results)"
auto_detect_return ==
    /\ unit = "auto_detect"
    /\ pc = "detect_loop"
    /\ i = Len(detect.candidates)
    /\ pc' = "returned"
    /\ ret' = <<AutoDetectResult(detect.best_result, detect.all_results)>>
    /\ UNCHANGED <<unit, reportVars, batchVars, dirVars, lifeVars, multiVars, call, exc, i,
                   calls, prev>>

\* the caller calls cleanup()
call_multi_cleanup ==
    /\ unit \in MultiUnits
    /\ MultiIdle
    /\ MultiCleanupEffect(MultilingualOCR_cleanup(engine_cache))
    /\ call' = "cleanup"
    /\ prev' = <<call, pc>>
    /\ pc' = "returned"
    /\ exc' = <<>>
    /\ ret' = <<"None">>
    /\ i' = 0
    /\ calls' = <<>>
    /\ UNCHANGED <<unit, reportVars, batchVars, dirVars, scope>>

\* "with MultilingualOCR() as ocr": __enter__ returns self
multi_with_enter ==
    /\ unit = "MultilingualOCR"
    /\ MultiIdle
    /\ scope.state # "body"
    /\ scope' = [state |-> "body", entered |-> TRUE, enter_calls |-> <<>>,
                 exit_calls |-> <<>>, body_exc |-> <<>>, propagated |-> <<>>]
    /\ call' = "__enter__"
    /\ prev' = <<call, pc>>
    /\ pc' = "returned"
    /\ exc' = <<>>
    /\ ret' = <<"self">>
    /\ i' = 0
    /\ calls' = <<>>
    /\ UNCHANGED <<unit, reportVars, batchVars, dirVars, multiVars, ocr, initialized,
                   next_handle, released, seg_handles, seg_built>>

\* the body ends (normally or by raising) and __exit__ runs
multi_with_leave ==
    /\ unit = "MultilingualOCR"
    /\ MultiIdle
    /\ scope.state = "body"
    /\ \E b \in BodyEnds :
        LET x == ctx_exit(b) IN
        /\ IF x.cleanup
             THEN MultiCleanupEffect(MultilingualOCR_cleanup(engine_cache))
             ELSE UNCHANGED <<multiVars, ocr, initialized, next_handle,
                              released, seg_handles, seg_built>>
        /\ scope' = [scope EXCEPT
                        !.state = "exited",
                        !.exit_calls = IF x.cleanup THEN <<"cleanup">> ELSE <<>>,
                        !.body_exc = b,
                        !.propagated = Propagated(b, x.suppress)]
    /\ call' = "__exit__"
    /\ prev' = <<call, pc>>
    /\ pc' = "returned"
    /\ exc' = <<>>
    /\ ret' = <<"False">>
    /\ i' = 0
    /\ calls' = <<>>
    /\ UNCHANGED <<unit, reportVars, batchVars, dirVars>>

\* ------------------------------------------------------------------------
\* Specifications
\* ------------------------------------------------------------------------

\* the caller lets go of the BatchResult process_directory returned; the
\* next process_directory call starts from here
drop_batch_result ==
    /\ unit = "BatchOCR"
    /\ pc = "returned"
    /\ call = "process_directory"
    /\ image_files # <<>>
    /\ ResetDir
    /\ ret' = <<>>
    /\ i' = 0
    /\ calls' = <<>>
    /\ UNCHANGED <<unit, reportVars, batchVars, lifeVars, multiVars, call, pc, exc, prev>>

NextLife ==
    \/ drop_batch_result
    \/ call_initialize
    \/ call_cleanup
    \/ with_enter
    \/ with_leave
    \/ session_enter
    \/ session_leave
    \/ call_process_image
    \/ process_directory_start
    \/ process_directory_iter
    \/ process_directory_return

\* the caller lets go of the result recognize or auto_detect returned
drop_detect_result ==
    /\ unit \in MultiUnits
    /\ ResultHeld
    /\ ret' = <<>>
    /\ detect' = NoDetect
    /\ i' = 0
    /\ calls' = <<>>
    /\ UNCHANGED <<unit, reportVars, batchVars, dirVars, lifeVars, engine_cache, got,
                   built, arg_lang, disposed, call, pc, exc, prev>>

NextMulti ==
    \/ drop_detect_result
    \/ call_get_or_create_engine
    \/ call_recognize
    \/ auto_detect_start
    \/ auto_detect_iter
    \/ auto_detect_return
    \/ call_multi_cleanup
    \/ multi_with_enter
    \/ multi_with_leave

\* ------------------------------------------------------------------------
\* Summary reports: create_summary_report (utils.py), BatchResult.to_dict
\* (02_batch_ocr.py), save_json and load_json (utils.py)
\* ------------------------------------------------------------------------

\* datetime.now().isoformat()
isoformat_now == "2024-01-01T00:00:00"

\* num/den rounded to the nearest integer, ties to even: the rounding of
\* the format specifications ".1f" and ".1%" (den > 0, num >= 0)
round_half_even(num, den) ==
    LET q == num \div den
        r == num % den
    IN  IF 2 * r < den THEN q
        ELSE IF 2 * r > den THEN q + 1
        ELSE IF q % 2 = 0 THEN q ELSE q + 1

\* the text of f"{x:.1f}" for x = tenths / 10
format_1f(tenths) ==
    ToString(tenths \div 10) \o "." \o ToString(tenths % 10)

\* a rate text that renders an empty run as zero percent
report_success_rate_zero(success_count, total) ==
    IF total > 0
      THEN format_1f(round_half_even(1000 * success_count, total)) \o "%"
      ELSE "0.0%"

\* f"{(success_count / total * 100):.1f}%" if total > 0 else "N/A"
report_success_rate(success_count, total) ==
    IF total > 0
      THEN format_1f(round_half_even(1000 * success_count, total)) \o "%"
      ELSE "N/A"

\* create_summary_report(total, success_count, errors, extra_info=...);
\* extra = <<>> stands for a report without the "extra" key
create_summary_report(total, success_count, errs, extra_info) ==
    [summary |-> [total |-> total, success |-> success_count,
                  failed |-> Len(errs),
                  success_rate |-> report_success_rate(success_count, total)],
     timestamp |-> isoformat_now,
     errors |-> errs,
     extra |-> IF extra_info # <<>> /\ extra_info[1] # "empty"
                 THEN extra_info ELSE <<>>]

\* the values of extra_info: None, {}, a dict of strings, a dict holding
\* a pathlib.Path
ExtraInfos == {<<>>, <<"empty">>, <<"strings">>, <<"Path">>}

\* the error records handed to create_summary_report for n failures
ReportErrors(n) ==
    [k \in 1..n |-> error_info("a.png", [type |-> "ValueError", msg |-> "bad"])]

\* BatchResult.success_rate
BatchResult_success_rate(b) ==
    IF b.total > 0 THEN [num |-> b.success_count, den |-> b.total]
    ELSE [num |-> 0, den |-> 1]

\* BatchResult.total_text_count
RECURSIVE sum_text_count(_)
sum_text_count(rs) ==
    IF rs = <<>> THEN 0
    ELSE (IF is_success(Head(rs)) THEN Head(rs).text_count ELSE 0)
            + sum_text_count(Tail(rs))

\* ImageResult.to_dict (texts and processing_time are not modelled)
ImageResult_to_dict(r) ==
    [file |-> r.file_name, path |-> r.file_path, text_count |-> r.text_count,
     error |-> r.error]

\* BatchResult.to_dict; f"{self.success_rate:.1%}"
BatchResult_to_dict(b) ==
    [summary |-> [total |-> b.total, success |-> b.success_count,
                  failed |-> b.failed_count,
                  success_rate |->
                      format_1f(round_half_even(
                          1000 * BatchResult_success_rate(b).num,
                          BatchResult_success_rate(b).den)) \o "%",
                  total_text_count |-> sum_text_count(b.results),
                  total_time |-> "0.00s"],
     processed_at |-> isoformat_now,
     results |-> [k \in DOMAIN b.results |-> ImageResult_to_dict(b.results[k])]]

\* a BatchResult as process_directory leaves it, with s successes and f
\* failures out of total images
BatchResultOf(total, s, f) ==
    [total |-> total, success_count |-> s, failed_count |-> f,
     results |-> [k \in 1..(s + f) |->
                    IF k <= s THEN ImageResult("a.png", 1, <<>>)
                    ELSE ImageResult("a.png", 0, <<"bad">>)]]

\* json.dump writes an int as its decimal digits and a str between quotes
json_dumps_int(n) == ToString(n)

json_dumps_str(str) == "\"" \o str \o "\""

\* a decoder that reads every number as one more than written
json_loads_int_plus_one(text) ==
    1 + (CHOOSE n \in 0..(MaxItems + 1) : json_dumps_int(n) = text)

\* json.load reads a number back from its digits
json_loads_int(text) ==
    CHOOSE n \in 0..(MaxItems + 1) : json_dumps_int(n) = text

\* the strings a summary holds for its rate
RateTexts ==
    {"N/A"} \cup {report_success_rate(s, t) : s \in 0..MaxItems,
                                              t \in 1..MaxItems}

\* json.load reads a string back from its quoted form
json_loads_str(text) ==
    CHOOSE str \in RateTexts : json_dumps_str(str) = text

\* is every value of the rendered dict one json.dump can encode?
json_serializable(d) ==
    ~("extra" \in DOMAIN d /\ d.extra = <<"Path">>)

\* the text json.dump writes for the "summary" object of a rendered
\* summary (the other members are written too and are not read back here)
json_dump(d) ==
    [summary |-> [total |-> json_dumps_int(d.summary.total),
                  success |-> json_dumps_int(d.summary.success),
                  failed |-> json_dumps_int(d.summary.failed),
                  success_rate |-> json_dumps_str(d.summary.success_rate)]]

\* what json.load makes of that text
json_load(text) ==
    [summary |-> [total |-> json_loads_int(text.summary.total),
                  success |-> json_loads_int(text.summary.success),
                  failed |-> json_loads_int(text.summary.failed),
                  success_rate |-> json_loads_str(text.summary.success_rate)]]

NoFile == [exists |-> FALSE, complete |-> FALSE, text |-> <<>>]

NoReport == [renderer |-> "", args |-> <<>>, value |-> <<>>]

OCROutputError(cause) ==
    [type |-> "OCROutputError", msg |-> cause, error_code |-> "E501",
     cause |-> cause]

\* save_json(data, file_path) with the file system behaving as io: the file
\* afterwards, and the exception raised if any.  open(path, "w") truncates
\* the file before json.dump writes; IOError and OSError become
\* OCROutputError, the TypeError of json.dump is not caught
save_json(data, io, f) ==
    IF io = "OSError"
      THEN [file |-> f, exc |-> <<OCROutputError("OSError")>>]
    ELSE IF ~json_serializable(data)
      THEN [file |-> [exists |-> TRUE, complete |-> FALSE, text |-> <<>>],
            exc |-> <<[type |-> "TypeError", msg |-> "not JSON serializable"]>>]
    ELSE [file |-> [exists |-> TRUE, complete |-> TRUE,
                    text |-> <<json_dump(data)>>],
          exc |-> <<>>]

\* load_json(file_path): validate_file_exists, then json.load;
\* json.JSONDecodeError becomes ValueError
load_json(f) ==
    IF ~f.exists
      THEN [ret |-> <<>>,
            exc |-> <<[type |-> "OCRFileNotFoundError", msg |-> "missing"]>>]
    ELSE IF ~f.complete
      THEN [ret |-> <<>>,
            exc |-> <<[type |-> "ValueError", msg |-> "JSONDecodeError"]>>]
    ELSE [ret |-> <<json_load(f.text[1])>>, exc |-> <<>>]

\* nothing rendered, saved or loaded yet
InitReport ==
    /\ report = NoReport
    /\ file = NoFile
    /\ loaded = <<>>

\* what every call of this unit does to the call variables
ReportCall(name, r_exc, r_ret) ==
    /\ call' = name
    /\ prev' = <<call, pc>>
    /\ pc' = IF r_exc = <<>> THEN "returned" ELSE "raised"
    /\ exc' = r_exc
    /\ ret' = r_ret
    /\ UNCHANGED <<i, calls>>

\* the caller calls create_summary_report(total, success_count, errors,
\* extra_info=extra_info)
call_create_summary_report ==
    /\ unit = "summary_report"
    /\ Idle
    /\ report = NoReport
    /\ \E total \in 0..MaxItems, extra_info \in ExtraInfos :
        \E s \in 0..total :
        \E f \in 0..(total - s) :
        \E d \in {create_summary_report(total, s, ReportErrors(f), extra_info)} :
            /\ report' = [renderer |-> "create_summary_report",
                          args |-> <<[total |-> total, success_count |-> s,
                                      failed_count |-> f]>>,
                          value |-> <<d>>]
            /\ ReportCall("create_summary_report", <<>>, <<>>)
    /\ UNCHANGED <<unit, batchVars, lifeVars, dirVars, multiVars, file, loaded>>

\* the caller calls batch_result.to_dict()
call_to_dict ==
    /\ unit = "summary_report"
    /\ Idle
    /\ report = NoReport
    /\ \E total \in 0..MaxItems :
        \E s \in 0..total :
        \E d \in {BatchResult_to_dict(BatchResultOf(total, s, total - s))} :
            /\ report' = [renderer |-> "to_dict",
                          args |-> <<[total |-> total, success_count |-> s,
                                      failed_count |-> total - s]>>,
                          value |-> <<d>>]
            /\ ReportCall("to_dict", <<>>, <<>>)
    /\ UNCHANGED <<unit, batchVars, lifeVars, dirVars, multiVars, file, loaded>>

\* the caller calls save_json(report, path)
call_save_json ==
    /\ unit = "summary_report"
    /\ Idle
    /\ report # NoReport
    /\ ~file.exists
    /\ \E io \in {"ok", "OSError"} :
        \E r \in {save_json(report.value[1], io, file)} :
            /\ file' = r.file
            /\ ReportCall("save_json", r.exc, <<>>)
    /\ UNCHANGED <<unit, batchVars, lifeVars, dirVars, multiVars, report,
                   loaded>>

\* the caller calls load_json(path)
call_load_json ==
    /\ unit = "summary_report"
    /\ Idle
    /\ loaded = <<>>
    /\ \E r \in {load_json(file)} :
        /\ loaded' = r.ret
        /\ ReportCall("load_json", r.exc, <<>>)
    /\ UNCHANGED <<unit, batchVars, lifeVars, dirVars, multiVars, report, file>>

\* the caller lets go of the report, removes the file and starts over
drop_report ==
    /\ unit = "summary_report"
    /\ Idle
    /\ report # NoReport
    /\ report' = NoReport
    /\ file' = NoFile
    /\ loaded' = <<>>
    /\ UNCHANGED <<unit, batchVars, callVars, lifeVars, dirVars, multiVars>>

NextReport ==
    \/ call_create_summary_report
    \/ call_to_dict
    \/ call_save_json
    \/ call_load_json
    \/ drop_report

InitCall ==
    /\ call = "__init__"
    /\ pc = "returned"
    /\ exc = <<>>
    /\ ret = <<>>
    /\ i = 0
    /\ calls = <<>>
    /\ prev = <<"", "">>

InitBatchUnit ==
    /\ unit = "batch_process"
    /\ InitBatch
    /\ call = "batch_process"
    /\ pc = "loop"
    /\ exc = <<>>
    /\ ret = <<>>
    /\ i = 0
    /\ calls = <<>>
    /\ prev = <<"", "">>
    /\ InitLife
    /\ NoDir
    /\ InitMulti
    /\ InitReport

InitLifeUnit ==
    /\ unit \in ManagerUnits \cup {"ocr_session"}
    /\ NoBatch
    /\ InitCall
    /\ InitLife
    /\ NoDir
    /\ InitMulti
    /\ InitReport

InitMultiUnit ==
    /\ unit \in MultiUnits
    /\ NoBatch
    /\ InitCall
    /\ InitLife
    /\ NoDir
    /\ InitMulti
    /\ InitReport

InitReportUnit ==
    /\ unit = "summary_report"
    /\ NoBatch
    /\ InitCall
    /\ InitLife
    /\ NoDir
    /\ InitMulti
    /\ InitReport

Init == InitBatchUnit \/ InitLifeUnit \/ InitMultiUnit \/ InitReportUnit

Next == NextBatch \/ NextLife \/ NextMulti \/ NextReport

\* batch_process alone
SpecBatch == InitBatchUnit /\ [][NextBatch]_vars

\* the lifecycle managers and BatchOCR
SpecLife == InitLifeUnit /\ [][NextLife]_vars

\* MultilingualOCR alone
SpecMulti == InitMultiUnit /\ [][NextMulti]_vars

\* the summary renderers with save_json and load_json
SpecReport == InitReportUnit /\ [][NextReport]_vars

\* every unit
Spec == Init /\ [][Next]_vars

\* ------------------------------------------------------------------------
\* Properties of batch processing
\* ------------------------------------------------------------------------

\* C1: under the "continue" policy every input item has exactly one outcome:
\* batch_process returns results and errors with
\* len(results) + len(errors) = N, and process_directory returns a
\* BatchResult with len(results) = total and
\* success_count + failed_count = N, N the number of items.
C1_OneOutcomePerItem ==
    /\ (unit = "batch_process" /\ pc = "returned" /\ on_error = "continue")
        => Len(ret[1].results) + Len(ret[1].errors) = Len(items)
    /\ (unit = "BatchOCR" /\ call = "process_directory" /\ pc = "returned"
            /\ ret # <<>>)
        => /\ ret[1].total = Len(image_files)
           /\ Len(ret[1].results) = ret[1].total
           /\ ret[1].success_count + ret[1].failed_count = Len(image_files)

\* a "continue" run over several items, some failing and some not, returned
C1_Witness ==
    /\ unit = "batch_process"
    /\ pc = "returned"
    /\ on_error = "continue"
    /\ Len(items) >= 2
    /\ Len(ret[1].errors) >= 1
    /\ Len(ret[1].results) >= 1

\* C2: under the "stop" policy, when the first failing item is at position k,
\* process_func is invoked on the items 1..k and on no item after k, and the
\* run returns the k-1 earlier successes and the one failure record.
C2_StopHaltsAtFirstFailure ==
    (unit = "batch_process" /\ on_error = "stop") =>
        \A k \in 1..Len(calls) :
            (process_func[calls[k]] # "ok"
                /\ \A j \in 1..(k - 1) : process_func[calls[j]] = "ok")
            => /\ calls = [j \in 1..k |-> j]
               /\ pc \in {"after_loop", "returned"}
               /\ pc = "returned" =>
                    /\ ret[1].results
                         = [j \in 1..(k - 1) |-> [item |-> items[j], call |-> j]]
                    /\ ret[1].errors
                         = <<[item |-> items[k], error |-> k,
                              error_type |-> process_func[k]]>>

\* a "stop" run whose second item of three fails returned
C2_Witness ==
    /\ unit = "batch_process"
    /\ pc = "returned"
    /\ on_error = "stop"
    /\ Len(items) = 3
    /\ process_func = <<"ok", "ValueError", "ok">>

\* C3: under the "raise" policy the exception process_func raised on the
\* first failing item leaves batch_process, once and as the object that was
\* raised; no item after it is processed and the call returns no value.
C3_RaisePropagatesOriginal ==
    (unit = "batch_process" /\ on_error = "raise") =>
        /\ \A k \in 1..Len(calls) :
            process_func[calls[k]] # "ok"
            => /\ k = Len(calls)
               /\ pc = "raised"
               /\ exc = <<[type |-> process_func[calls[k]], msg |-> calls[k]]>>
        /\ pc = "raised" => (ret = <<>> /\ ~ENABLED batch_process_iter
                                /\ ~ENABLED batch_process_return)

\* a "raise" run stopped by the failure of its second item of three
C3_Witness ==
    /\ unit = "batch_process"
    /\ on_error = "raise"
    /\ pc = "raised"
    /\ Len(items) = 3
    /\ calls = <<1, 2>>
    /\ exc # <<>> /\ exc[1].type = "ValueError"

\* C4: the items are processed strictly in input order, and the order is kept
\* in what is returned: process_directory returns one list whose i-th entry
\* is the outcome of the i-th image, failures in place; batch_process returns
\* the successes and the failures as two lists, each in input order.
C4_InputOrderKept ==
    /\ unit \in {"batch_process", "BatchOCR"}
        => calls = [j \in 1..Len(calls) |-> j]
    /\ (unit = "batch_process" /\ pc = "returned") =>
        /\ \A a, b \in 1..Len(ret[1].results) :
            a < b => ret[1].results[a].call < ret[1].results[b].call
        /\ \A a, b \in 1..Len(ret[1].errors) :
            a < b => ret[1].errors[a].error < ret[1].errors[b].error
        /\ \A a \in 1..Len(ret[1].results) :
            /\ ret[1].results[a].call \in 1..Len(calls)
            /\ ret[1].results[a].item = items[ret[1].results[a].call]
        /\ \A a \in 1..Len(ret[1].errors) :
            /\ ret[1].errors[a].error \in 1..Len(calls)
            /\ ret[1].errors[a].item = items[ret[1].errors[a].error]
    /\ (unit = "BatchOCR" /\ call = "process_directory" /\ pc = "returned"
            /\ ret # <<>>) =>
        \A j \in 1..Len(ret[1].results) :
            /\ ret[1].results[j].file_path = image_files[j]
            /\ is_success(ret[1].results[j]) <=> predict[j] = "ok"
            /\ ~is_success(ret[1].results[j])
                => ret[1].results[j].error = <<j>>

\* a "continue" run over a, b, c whose middle item fails returned
C4_Witness ==
    /\ unit = "batch_process"
    /\ pc = "returned"
    /\ on_error = "continue"
    /\ Len(items) = 3
    /\ process_func = <<"ok", "ValueError", "ok">>
    /\ Len(ret[1].results) = 2
    /\ Len(ret[1].errors) = 1

\* C4 as stated: the outcomes a run returns, read in the order they are
\* returned, are the outcomes of the 1st, 2nd, 3rd ... item, successes and
\* failures interleaved as in the input.
C4_OutcomesInterleaved ==
    /\ (unit = "batch_process" /\ pc = "returned") =>
        LET outcomes ==
                [j \in 1..Len(ret[1].results) |-> ret[1].results[j].call]
                    \o [j \in 1..Len(ret[1].errors) |-> ret[1].errors[j].error]
        IN \A j \in 1..Len(outcomes) : outcomes[j] = j
    /\ (unit = "BatchOCR" /\ call = "process_directory" /\ pc = "returned"
            /\ ret # <<>>) =>
        \A j \in 1..Len(ret[1].results) :
            ret[1].results[j].file_path = image_files[j]

\* C5: under "continue" and "stop" a failure of the processing function
\* never leaves the batch run, and every item whose processing raised has
\* exactly one failure record with the item and the message of the error;
\* the record of batch_process carries the kind of the error as well, the
\* ImageResult of BatchOCR.process_image has no field for it.
C5_FailuresRecorded ==
    /\ (unit = "batch_process" /\ on_error \in {"continue", "stop"}) =>
        /\ pc = "raised" => exc[1].type = "CallbackError"
        /\ pc \in {"loop", "after_loop"}
            => (ENABLED batch_process_iter \/ ENABLED batch_process_return)
        /\ \A k \in 1..Len(calls) :
            process_func[calls[k]] # "ok" =>
                Cardinality({j \in 1..Len(errors) :
                                errors[j].error = calls[k]}) = 1
        /\ \A j \in 1..Len(errors) :
            /\ errors[j].error \in 1..Len(calls)
            /\ errors[j] = [item |-> items[errors[j].error],
                            error |-> errors[j].error,
                            error_type |-> process_func[errors[j].error]]
            /\ errors[j].error_type # "ok"
        /\ pc = "returned" => ret[1].errors = errors
    /\ (unit = "BatchOCR" /\ call \in {"process_image", "process_directory"}) =>
        /\ pc = "raised" => calls = <<>>
        /\ (call = "process_image" /\ pc = "returned" /\ ~is_success(ret[1]))
            => (ret[1].error = <<1>> /\ ret[1].file_path \in Items)
        /\ (call = "process_directory" /\ pc = "dir_loop") =>
            /\ Len(batch_result.results) = Len(calls)
            /\ \A k \in 1..Len(calls) :
                predict[k] # "ok" =>
                    /\ batch_result.results[k].file_path = image_files[k]
                    /\ batch_result.results[k].error = <<k>>

\* every item of a "continue" run failed, and the run returned
C5_Witness ==
    /\ unit = "batch_process"
    /\ on_error = "continue"
    /\ pc = "returned"
    /\ Len(items) >= 2
    /\ Len(ret[1].errors) = Len(items)

\* C5 as stated: every failure record carries the item, the message and the
\* kind of the error, in batch_process and in BatchOCR.process_image alike.
C5_EveryRecordCarriesKind ==
    /\ unit = "batch_process" =>
        \A j \in 1..Len(errors) :
            DOMAIN errors[j] = {"item", "error", "error_type"}
    /\ (unit = "BatchOCR" /\ call = "process_image" /\ pc = "returned"
            /\ ~is_success(ret[1]))
        => "error_type" \in DOMAIN ret[1]
    /\ (unit = "BatchOCR" /\ call = "process_directory") =>
        \A j \in 1..Len(batch_result.results) :
            ~is_success(batch_result.results[j])
                => "error_type" \in DOMAIN batch_result.results[j]

\* C6: an OCRInitError or an OCRConfigError raised while an item is
\* processed always leaves the run as an exception, whatever the policy: it
\* is never turned into a failure record or a failure result.
C6_FatalErrorsPropagate ==
    /\ unit = "batch_process" =>
        \A k \in 1..Len(calls) :
            process_func[calls[k]] \in {"OCRInitError", "OCRConfigError"}
            => /\ pc = "raised"
               /\ exc = <<[type |-> process_func[calls[k]], msg |-> calls[k]]>>
    /\ (unit = "BatchOCR" /\ call = "process_directory") =>
        \A k \in 1..Len(calls) :
            predict[k] \in {"OCRInitError", "OCRConfigError"}
            => /\ pc = "raised"
               /\ exc = <<[type |-> predict[k], msg |-> k]>>
    /\ (unit = "MultilingualOCR" /\ call = "recognize" /\ pc = "returned") =>
        \A j \in 1..Len(ret[1].error) :
            ret[1].error[j] \notin {"OCRInitError", "OCRConfigError"}

\* ------------------------------------------------------------------------
\* Properties of the engine lifecycle
\* ------------------------------------------------------------------------

C8_CleanupIdempotent ==
    unit \in ManagerUnits =>
        /\ \A h \in Handles :
            /\ released[h] <= 1
            /\ released[h] = 1 => h < next_handle
        /\ call = "cleanup" =>
            /\ pc = "returned"
            /\ exc = <<>>
            /\ ocr = 0
            /\ ~initialized
            /\ \A h \in Handles : h < next_handle => released[h] = 1

\* cleanup() returned twice in a row after an engine was built and released
C8_Witness ==
    /\ unit \in ManagerUnits
    /\ prev = <<"cleanup", "returned">>
    /\ call = "cleanup"
    /\ pc = "returned"
    /\ next_handle > 1
    /\ released[1] = 1

\* C9: a with-block is entered through initialize() where the class has
\* one; however the body ends, leaving the block calls cleanup() once,
\* after which no engine is held and every engine built has been released
\* once; an exception the body raised reaches the caller as it was raised.
C9_ScopedCleanup ==
    /\ scope.state = "body" =>
        /\ scope.entered
        /\ scope.enter_calls
             = IF unit = "MultilingualOCR" THEN <<>> ELSE <<"initialize">>
    /\ (call \in {"__enter__", "ocr_session"} /\ scope.state = "body"
            /\ unit # "MultilingualOCR")
        => (initialized /\ ocr # 0)
    /\ (scope.state = "exited" /\ scope.entered) =>
        /\ scope.exit_calls = <<"cleanup">>
        /\ scope.propagated = scope.body_exc
    /\ (call = "__exit__" \/ (call = "ocr_session" /\ scope.state = "exited"))
        => /\ scope.exit_calls = <<"cleanup">>
           /\ ocr = 0
           /\ ~initialized
           /\ engine_cache = EmptyCache
           /\ \A h \in Handles : h < next_handle => released[h] = 1

\* a with-block whose body raised was left, with an engine built in it
C9_Witness ==
    /\ call = "__exit__"
    /\ scope.state = "exited"
    /\ scope.entered
    /\ scope.body_exc # <<>>
    /\ scope.propagated = scope.body_exc
    /\ next_handle > 1

\* C10: between two cleanups, _get_or_create_engine calls whose language
\* arguments normalise to the same key return the same engine, and the
\* constructor is invoked once for that key.
C10_CacheIdentity ==
    unit \in MultiUnits =>
        /\ \A p \in got, q \in got :
            normalize_language(p[1]).ret = normalize_language(q[1]).ret
                => p[2] = q[2]
        /\ \A b \in built, c \in built : b[1] = c[1] => b[2] = c[2]
        /\ \A p \in got :
            <<normalize_language(p[1]).ret[1], p[2]>> \in built

\* 'chinese' and 'ch' were both asked for and got the same engine
C10_Witness ==
    /\ unit = "MultilingualOCR"
    /\ \E h \in Handles : {<<"chinese", h>>, <<"ch", h>>} \subseteq got

\* ------------------------------------------------------------------------
\* Properties of the engine cache and of language detection
\* ------------------------------------------------------------------------

\* C11: _get_or_create_engine(lang) with a lang that is neither a key of
\* SUPPORTED_LANGUAGES nor a key of LANGUAGE_ALIASES raises OCRConfigError
\* before any engine is constructed: no engine is built and the cache is
\* what it was before the call.
C11_UnknownLanguageRejected ==
    [][(call' = "_get_or_create_engine"
            /\ arg_lang' \notin SUPPORTED_LANGUAGES
            /\ arg_lang' \notin DOMAIN LANGUAGE_ALIASES)
        => /\ pc' = "raised"
           /\ exc' # <<>>
           /\ exc'[1].type = "OCRConfigError"
           /\ ret' = <<>>
           /\ engine_cache' = engine_cache
           /\ next_handle' = next_handle
           /\ built' = built
           /\ released' = released]_vars

\* _get_or_create_engine('xx') raised OCRConfigError on a cache that holds
\* an engine
C11_Witness ==
    /\ unit = "MultilingualOCR"
    /\ call = "_get_or_create_engine"
    /\ arg_lang = "xx"
    /\ pc = "raised"
    /\ exc[1].type = "OCRConfigError"
    /\ engine_cache # EmptyCache

\* C12: MultilingualOCR.cleanup never raises and leaves the cache empty,
\* whatever calls preceded it; every engine built so far has then been
\* released exactly once, no engine is ever released twice, and a cleanup
\* that directly follows a cleanup (or finds no engine) changes nothing.
C12_CleanupAllIdempotent ==
    /\ [](unit \in MultiUnits =>
            /\ \A h \in Handles : released[h] <= 1
            /\ call = "cleanup" =>
                /\ pc = "returned"
                /\ exc = <<>>
                /\ engine_cache = EmptyCache
                /\ \A h \in Handles : h < next_handle => released[h] = 1)
    /\ [][(unit \in MultiUnits /\ call' = "cleanup"
                /\ (call = "cleanup" \/ engine_cache = EmptyCache))
            => /\ engine_cache' = engine_cache
               /\ released' = released
               /\ next_handle' = next_handle
               /\ disposed' = disposed]_vars

\* cleanup() returned twice in a row after auto_detect had filled the cache
\* with two engines
C12_Witness ==
    /\ unit = "auto_detect"
    /\ prev = <<"cleanup", "returned">>
    /\ call = "cleanup"
    /\ pc = "returned"
    /\ Cardinality(disposed) = 2
    /\ released[1] = 1
    /\ released[2] = 1

\* C13: no engine reachable through the cache has been released, so after
\* cleanup none is reachable at all; a _get_or_create_engine call that
\* returns always returns an engine that was never released, and for a key
\* that is not in the cache (as every key is after cleanup) it invokes the
\* constructor and returns the engine just built.
C13_FreshAfterCleanup ==
    /\ [](unit \in MultiUnits =>
            /\ \A k \in DOMAIN engine_cache : released[engine_cache[k]] = 0
            /\ \A d \in disposed : /\ released[d[2]] = 1
                                   /\ \A k \in DOMAIN engine_cache :
                                        engine_cache[k] # d[2])
    /\ [][(call' = "_get_or_create_engine" /\ pc' = "returned") =>
            LET k == normalize_language(arg_lang').ret[1] IN
            /\ ret' # <<>>
            /\ released'[ret'[1]] = 0
            /\ \A d \in disposed' : d[2] # ret'[1]
            /\ k \notin DOMAIN engine_cache =>
                /\ ret'[1] = next_handle
                /\ next_handle' = next_handle + 1
                /\ <<k, ret'[1]>> \in built'
                /\ engine_cache'[k] = ret'[1]]_vars

\* after a cleanup that dropped the engine cached for 'ch',
\* _get_or_create_engine('ch') returned another engine
C13_Witness ==
    /\ unit = "MultilingualOCR"
    /\ call = "_get_or_create_engine"
    /\ pc = "returned"
    /\ arg_lang = "ch"
    /\ <<"ch", 1>> \in disposed
    /\ ret = <<2>>
    /\ engine_cache["ch"] = 2

\* C14: auto_detect's best match is the earliest candidate, in input order,
\* among the successful candidates with the greatest average confidence: a
\* later candidate with an equal confidence does not replace it.  (There is
\* a best match exactly when some successful candidate has an average
\* confidence above 0.)
C14_EarliestBestWins ==
    unit = "auto_detect" =>
        LET all == detect.all_results
            best == detect.best_result
            avg(j) == all[j].average_confidence
            less(a, b) == a.num * b.den < b.num * a.den
            succ == {j \in 1..Len(all) :
                        all[j].error = <<>> /\ all[j].text_count > 0}
            top == {j \in succ : \A m \in succ : ~less(avg(j), avg(m))}
        IN
        /\ best # <<>> =>
            \E j \in top :
                /\ \A m \in top : j <= m
                /\ best[1] = all[j]
                /\ best[1].language_code = detect.candidates[j]
                /\ detect.best_confidence = avg(j)
        /\ best = <<>> <=> \A j \in succ : avg(j).num = 0
        /\ (call = "auto_detect" /\ pc = "returned" /\ ret # <<>>) =>
            /\ ret[1].best_match = best
            /\ ret[1].all_results = all

\* candidates ['ch', 'en'] both succeeded with the average confidence 0.9
\* (one line of 0.9, and lines of 0.8 and 1.0) and the best match is 'ch'
C14_Witness ==
    /\ unit = "auto_detect"
    /\ call = "auto_detect"
    /\ pc = "returned"
    /\ ret # <<>>
    /\ detect.candidates = <<"ch", "en">>
    /\ Len(ret[1].all_results) = 2
    /\ ret[1].all_results[1].average_confidence = [num |-> 90, den |-> 1]
    /\ ret[1].all_results[2].average_confidence = [num |-> 180, den |-> 2]
    /\ ret[1].best_match # <<>>
    /\ ret[1].best_match[1].language_code = "ch"

\* C15: a candidate whose recognition fails with an exception that is not
\* an OCRException does not end auto_detect: it is recorded in all_results,
\* in its place, with zero confidence and no texts.  The only exceptions
\* that leave auto_detect are OCRExceptions: a candidate whose engine could
\* not be obtained (OCRConfigError, OCRInitError), an OCRException raised
\* while recognising, a missing image (OCRFileNotFoundError).
C15_RecognitionFailuresRecorded ==
    (unit = "auto_detect" /\ call = "auto_detect") =>
        /\ pc = "raised" =>
            /\ exc # <<>>
            /\ exc[1].type \in {"OCRInitError", "OCRConfigError",
                                "OCRFileNotFoundError"}
        /\ (pc = "detect_loop" \/ (pc = "returned" /\ ret # <<>>)) =>
            /\ Len(detect.all_results) = i
            /\ \A j \in 1..i :
                LET r == detect.all_results[j] IN
                /\ r.language_code = detect.candidates[j]
                /\ r.error # <<>> =>
                    /\ r.error = <<"ValueError">>
                    /\ j \in {calls[m] : m \in 1..Len(calls)}
                    /\ r.average_confidence.num = 0
                    /\ r.texts = <<>>
                    /\ r.text_count = 0
        /\ (pc = "returned" /\ ret # <<>>) =>
            /\ i = Len(detect.candidates)
            /\ ret[1].all_results = detect.all_results

\* auto_detect over ['ch', 'en'] returned; recognising with 'ch' had failed
\* and 'en' is the best match
C15_Witness ==
    /\ unit = "auto_detect"
    /\ call = "auto_detect"
    /\ pc = "returned"
    /\ ret # <<>>
    /\ detect.candidates = <<"ch", "en">>
    /\ ret[1].all_results[1].error # <<>>
    /\ ret[1].best_match # <<>>
    /\ ret[1].best_match[1].language_code = "en"

\* C15 as stated: whichever candidates fail, at engine acquisition or at
\* recognition, no exception leaves auto_detect (a missing image aside).
C15_NoCandidateFailureEscapes ==
    (unit = "auto_detect" /\ call = "auto_detect" /\ pc = "raised")
        => exc[1].type = "OCRFileNotFoundError"

\* C16: an initialize() whose constructor fails raises OCRInitError and
\* leaves the manager without engine and not initialized; the error code is
\* E103 exactly when the cause is an ImportError, and E101 (E102 for
\* StructureContextManager) for any other cause; an initialize() that
\* follows a failed one invokes the constructor again.
C16_FailedInitialize ==
    /\ []((unit \in ManagerUnits \cup {"ocr_session"}
                /\ call \in {"initialize", "__enter__", "ocr_session"}
                /\ pc = "raised") =>
            /\ exc # <<>>
            /\ exc[1].type = "OCRInitError"
            /\ ocr = 0
            /\ ~initialized
            /\ exc[1].cause \in {"ImportError", "RuntimeError"}
            /\ exc[1].error_code = "E103" <=> exc[1].cause = "ImportError"
            /\ exc[1].error_code # "E103" =>
                exc[1].error_code
                    = IF unit = "StructureContextManager" THEN "E102"
                      ELSE "E101")
    /\ [][(unit \in ManagerUnits /\ call = "initialize" /\ pc = "raised"
                /\ call' = "initialize")
            => \/ /\ pc' = "raised"
                  /\ exc'[1].type = "OCRInitError"
                  /\ UNCHANGED <<ocr, initialized, next_handle>>
               \/ /\ pc' = "returned"
                  /\ ocr' = next_handle
                  /\ initialized'
                  /\ next_handle' = next_handle + 1
                  /\ seg_built' = seg_built + 1]_vars

\* an initialize() that failed was followed by one that built an engine
C16_Witness ==
    /\ unit \in ManagerUnits
    /\ prev = <<"initialize", "raised">>
    /\ call = "initialize"
    /\ pc = "returned"
    /\ initialized
    /\ ocr # 0

\* ------------------------------------------------------------------------
\* Properties of empty runs, of the progress callback and of summaries
\* ------------------------------------------------------------------------

\* C17: batch_process over an empty items list calls neither process_func
\* nor the progress callback and returns empty results and empty errors;
\* process_directory on a directory without images returns a BatchResult
\* with total = success_count = failed_count = 0 and no results, without
\* calling predict.
C17_EmptyRun ==
    /\ (unit = "batch_process" /\ items = <<>>) =>
        /\ calls = <<>>
        /\ cb_calls = <<>>
        /\ pc \in {"loop", "returned"}
        /\ pc = "loop" => ENABLED batch_process_return
        /\ pc = "returned"
            => ret = <<[results |-> <<>>, errors |-> <<>>]>>
    /\ (unit = "BatchOCR" /\ call = "process_directory" /\ pc = "returned"
            /\ image_files = <<>> /\ ret # <<>>) =>
        /\ ret = <<[total |-> 0, success_count |-> 0, failed_count |-> 0,
                    results |-> <<>>]>>
        /\ calls = <<>>
        /\ i = 0

\* batch_process over no items, with a progress callback, returned
C17_Witness ==
    /\ unit = "batch_process"
    /\ items = <<>>
    /\ progress_callback.present
    /\ pc = "returned"
    /\ ret # <<>>

\* the rendered rate text is the percentage success_count / total, to the
\* nearest tenth of a percent
RateIsQuotient(rate, success_count, total) ==
    \E tenths \in 0..1000 :
        /\ rate = format_1f(tenths) \o "%"
        /\ 2 * (1000 * success_count - tenths * total) <= total
        /\ 2 * (tenths * total - 1000 * success_count) <= total

\* C18: a rendered summary reports success_rate as success_count / total
\* (a percentage with one decimal) when total > 0; when total = 0 nothing
\* is divided, create_summary_report reports the sentinel "N/A" and
\* BatchResult.to_dict reports "0.0%".
C18_SuccessRateRendered ==
    (unit = "summary_report" /\ report # NoReport) =>
        /\ report.args[1].total > 0 =>
            RateIsQuotient(report.value[1].summary.success_rate,
                           report.args[1].success_count,
                           report.args[1].total)
        /\ report.args[1].total = 0 =>
            report.value[1].summary.success_rate =
                IF report.renderer = "create_summary_report" THEN "N/A"
                ELSE "0.0%"

\* BatchResult.to_dict has rendered a summary of no images
C18_Witness ==
    /\ unit = "summary_report"
    /\ call = "to_dict"
    /\ pc = "returned"
    /\ report.renderer = "to_dict"
    /\ report.args[1].total = 0
    /\ report.value[1].summary.success_rate = "0.0%"

\* C18 as stated: both renderers report the sentinel "N/A" when total = 0
C18_SentinelInBothRenderers ==
    (unit = "summary_report" /\ report # NoReport) =>
        /\ report.args[1].total > 0 =>
            RateIsQuotient(report.value[1].summary.success_rate,
                           report.args[1].success_count,
                           report.args[1].total)
        /\ report.args[1].total = 0 =>
            report.value[1].summary.success_rate = "N/A"

C20_ProgressCallback ==
    unit = "batch_process" =>
        /\ cb_calls = IF progress_callback.present
                        THEN [k \in 1..i |-> <<k, Len(items), items[k]>>]
                        ELSE <<>>
        /\ \A p \in DOMAIN events :
            /\ (events[p].op = "process_func" /\ progress_callback.present)
                => /\ p > 1
                   /\ events[p - 1] = [op |-> "progress_callback",
                                       n |-> events[p].n]
            /\ events[p].op = "progress_callback"
                => /\ progress_callback.present
                   /\ \A q \in DOMAIN events :
                        events[q] = events[p] => q = p
        /\ (progress_callback.present /\ progress_callback.raises_at \in 1..i)
            => /\ i = progress_callback.raises_at
               /\ pc = "raised"
               /\ exc = <<CallbackExc(i)>>
               /\ ret = <<>>
               /\ calls = [k \in 1..(i - 1) |-> k]
               /\ events[Len(events)] = [op |-> "progress_callback", n |-> i]
               /\ Len(results) + Len(errors) = i - 1
               /\ \A k \in DOMAIN errors :
                    errors[k].error_type # CallbackExc(i).type
               /\ ~ENABLED batch_process_iter
               /\ ~ENABLED batch_process_return

\* under "continue" the callback raised at the second of three items,
\* after the first item had been processed
C20_Witness ==
    /\ unit = "batch_process"
    /\ on_error = "continue"
    /\ Len(items) = 3
    /\ progress_callback.present
    /\ progress_callback.raises_at = 2
    /\ pc = "raised"
    /\ calls = <<1>>
    /\ Len(cb_calls) = 2

\* ------------------------------------------------------------------------
\* Further properties of the batch runs, the lifecycle and the engine cache
\* ------------------------------------------------------------------------

\* C21: when process_func fails on no item, what a run does is the same
\* under "continue", "stop" and "raise": after i iterations the calls of
\* the callback and of process_func, their order, results and errors are
\* given by items, the callback and i alone, the loop is never left by
\* break or raise of the handler, and the run returns every result and no
\* error.
C21_PoliciesAgreeWithoutFailure ==
    (unit = "batch_process" /\ \A k \in DOMAIN process_func : process_func[k] = "ok")
    => \E done \in {IF progress_callback.present
                        /\ progress_callback.raises_at \in 1..i
                      THEN i - 1 ELSE i} :
        /\ calls = [k \in 1..done |-> k]
        /\ results = [k \in 1..done |-> [item |-> items[k], call |-> k]]
        /\ errors = <<>>
        /\ cb_calls = IF progress_callback.present
                        THEN [k \in 1..i |-> <<k, Len(items), items[k]>>]
                        ELSE <<>>
        /\ events =
            IF progress_callback.present
              THEN [p \in 1..(i + done) |->
                      IF p % 2 = 1
                        THEN [op |-> "progress_callback", n |-> (p + 1) \div 2]
                        ELSE [op |-> "process_func", n |-> p \div 2]]
              ELSE [p \in 1..done |-> [op |-> "process_func", n |-> p]]
        /\ pc \in {"loop", "returned", "raised"}
        /\ pc = "raised" <=> done < i
        /\ pc = "raised" => exc = <<CallbackExc(i)>>
        /\ pc = "returned" =>
            /\ i = Len(items)
            /\ ret = <<[results |-> results, errors |-> <<>>]>>
        /\ (pc = "loop" /\ i = Len(items)) => ENABLED batch_process_return
        /\ (pc = "loop" /\ i < Len(items)) => ENABLED batch_process_iter

\* a "stop" run over several items, none failing, with a callback, returned
C21_Witness ==
    /\ unit = "batch_process"
    /\ on_error = "stop"
    /\ Len(items) >= 2
    /\ \A k \in DOMAIN process_func : process_func[k] = "ok"
    /\ progress_callback.present
    /\ pc = "returned"
    /\ Len(ret[1].results) = Len(items)

\* C22: between calls, whatever sequence of initialize() (succeeding or
\* failing), cleanup() and with-blocks ran on an OCRContextManager, a
\* StructureContextManager or a BatchOCR, _initialized is true exactly
\* when the engine field holds an engine.
C22_FlagIffHandle ==
    unit \in ManagerUnits \cup {"ocr_session"} =>
        /\ initialized <=> ocr # 0
        /\ ocr # 0 => (ocr \in Handles /\ ocr < next_handle /\ released[ocr] = 0)

\* after an engine was built and released, initialize() failed
C22_Witness ==
    /\ unit \in ManagerUnits
    /\ prev = <<"cleanup", "returned">>
    /\ call = "initialize"
    /\ pc = "raised"
    /\ next_handle > 1
    /\ released[1] = 1
    /\ ~initialized
    /\ ocr = 0

\* C23: in a MultilingualOCR session, whatever recognize, auto_detect,
\* _get_or_create_engine and cleanup calls ran, at most one engine that was
\* built for a language key and not yet released exists per key; the
\* engines that exist are exactly the cached ones, and every cache entry is
\* stored under the normalised key its engine was built for.
C23_OneReadyEnginePerKey ==
    unit \in MultiUnits =>
        LET made == built \cup disposed
            ready(k) == {b[2] : b \in {x \in made : x[1] = k
                                                    /\ released[x[2]] = 0}}
        IN
        /\ \A b \in made : Cardinality(ready(b[1])) <= 1
        /\ {h \in Handles : h < next_handle /\ released[h] = 0}
                = {engine_cache[k] : k \in DOMAIN engine_cache}
        /\ \A k \in DOMAIN engine_cache :
            /\ k \in SUPPORTED_LANGUAGES
            /\ normalize_language(k).ret = <<k>>
            /\ <<k, engine_cache[k]>> \in built
            /\ ready(k) = {engine_cache[k]}
        /\ \A h \in Handles : h < next_handle => \E b \in made : b[2] = h

\* auto_detect returned with two engines cached, after a cleanup had
\* released earlier ones
C23_Witness ==
    /\ unit = "auto_detect"
    /\ call = "auto_detect"
    /\ pc = "returned"
    /\ disposed # {}
    /\ Cardinality(DOMAIN engine_cache) = 2

\* C24: while process_directory runs and when it returns,
\* success_count + failed_count is the number of recorded results, which
\* is the number of images processed so far and at most total, and is total
\* at return; what batch_process has collected, and returns, is one outcome
\* per process_func call and at most len(items) outcomes, exactly
\* len(items) at return under "continue" (and under "raise", which returns
\* only when nothing failed), so that fewer are returned only under "stop".
C24_CountsMatchOutcomes ==
    /\ (unit = "BatchOCR" /\ call = "process_directory"
            /\ pc \in {"dir_loop", "returned"} /\ image_files # <<>>) =>
        /\ batch_result.total = Len(image_files)
        /\ batch_result.success_count + batch_result.failed_count
                = Len(batch_result.results)
        /\ Len(batch_result.results) = i
        /\ i <= batch_result.total
        /\ batch_result.success_count
                = Cardinality({j \in DOMAIN batch_result.results :
                                    is_success(batch_result.results[j])})
        /\ pc = "returned" =>
            /\ ret = <<batch_result>>
            /\ Len(batch_result.results) = batch_result.total
    /\ unit = "batch_process" =>
        /\ Len(results) + Len(errors) = Len(calls)
        /\ Len(calls) <= Len(items)
        /\ pc = "returned" =>
            /\ ret = <<[results |-> results, errors |-> errors]>>
            /\ on_error \in {"continue", "raise"}
                => Len(results) + Len(errors) = Len(items)
            /\ Len(results) + Len(errors) < Len(items)
                => (on_error = "stop" /\ Len(errors) = 1)

\* process_directory returned after images that succeeded and images that
\* failed
C24_Witness ==
    /\ unit = "BatchOCR"
    /\ call = "process_directory"
    /\ pc = "returned"
    /\ ret # <<>>
    /\ ret[1].success_count >= 1
    /\ ret[1].failed_count >= 1
    /\ ret[1].total = Len(image_files)
    /\ Len(image_files) >= 2

\* C25: in auto_detect, during the loop and in what it returns, there is
\* no best match when every candidate tried so far failed, detected no
\* text or had an average confidence of 0, and detected_language is then
\* None; there is a best match only if some candidate succeeded with an
\* average confidence above 0, and it is then such an entry of all_results.
C25_NoBestWithoutConfidence ==
    (unit = "auto_detect" /\ call = "auto_detect"
        /\ (pc = "detect_loop" \/ (pc = "returned" /\ ret # <<>>))) =>
        LET all == detect.all_results
            good == {j \in DOMAIN all :
                        /\ all[j].error = <<>>
                        /\ all[j].text_count > 0
                        /\ all[j].average_confidence.num > 0}
        IN
        /\ good = {} => detect.best_result = <<>>
        /\ detect.best_result # <<>> =>
            \E j \in good : all[j] = detect.best_result[1]
        /\ pc = "returned" =>
            /\ ret[1].all_results = all
            /\ ret[1].best_match = detect.best_result
            /\ good = {} =>
                (ret[1].best_match = <<>> /\ detected_language(ret[1]) = <<>>)
            /\ ret[1].best_match # <<>> =>
                /\ \E j \in good : ret[1].all_results[j] = ret[1].best_match[1]
                /\ detected_language(ret[1])
                        = <<ret[1].best_match[1].language_code>>

\* auto_detect returned without a best match after one candidate whose
\* text had the average confidence 0 and one whose recognition failed
C25_Witness ==
    /\ unit = "auto_detect"
    /\ call = "auto_detect"
    /\ pc = "returned"
    /\ ret # <<>>
    /\ ret[1].best_match = <<>>
    /\ \E j \in DOMAIN ret[1].all_results :
        /\ ret[1].all_results[j].error = <<>>
        /\ ret[1].all_results[j].text_count > 0
        /\ ret[1].all_results[j].average_confidence.num = 0
    /\ \E j \in DOMAIN ret[1].all_results :
        ret[1].all_results[j].error # <<>>

\* C26: auto_detect tries the candidates one by one in the order given:
\* the i-th iteration is about candidates[i], takes its engine from the
\* cache under the normalised key, constructing one only if the key is not
\* cached, calls predict only on the engine so obtained, and appends one
\* result with language_code = candidates[i]; when auto_detect returns,
\* all_results has one entry per candidate, in the order of the candidates.
C26_CandidatesInOrder ==
    /\ []((unit = "auto_detect" /\ call = "auto_detect"
                /\ (pc = "detect_loop" \/ (pc = "returned" /\ ret # <<>>))) =>
            /\ Len(detect.all_results) = i
            /\ i <= Len(detect.candidates)
            /\ \A j \in 1..i :
                detect.all_results[j].language_code = detect.candidates[j]
            /\ \A j \in 1..Len(calls) :
                /\ calls[j] \in 1..i
                /\ \A m \in 1..(j - 1) : calls[m] < calls[j]
            /\ pc = "returned" =>
                /\ i = Len(detect.candidates)
                /\ Len(ret[1].all_results) = Len(detect.candidates)
                /\ \A j \in 1..Len(detect.candidates) :
                    ret[1].all_results[j].language_code = detect.candidates[j])
    /\ [][(unit = "auto_detect" /\ call = "auto_detect" /\ pc = "detect_loop"
                /\ pc' # "returned" /\ i < Len(detect.candidates))
            => /\ i' = i + 1
               /\ LET lang == detect.candidates[i + 1]
                      n == normalize_language(lang)
                      reached == detect.exists /\ is_supported_language(lang)
                  IN
                  /\ ~reached =>
                        /\ pc' = "raised"
                        /\ engine_cache' = engine_cache
                        /\ next_handle' = next_handle
                        /\ calls' = calls
                  /\ (reached /\ n.ret[1] \in DOMAIN engine_cache) =>
                        /\ engine_cache' = engine_cache
                        /\ next_handle' = next_handle
                        /\ calls' = Append(calls, i + 1)
                        /\ <<lang, engine_cache[n.ret[1]]>> \in got'
                  /\ (reached /\ n.ret[1] \notin DOMAIN engine_cache) =>
                        \/ /\ pc' = "raised"
                           /\ exc'[1].type = "OCRInitError"
                           /\ engine_cache' = engine_cache
                           /\ next_handle' = next_handle
                           /\ calls' = calls
                        \/ /\ engine_cache'
                                = cache_put(engine_cache, n.ret[1], next_handle)
                           /\ next_handle' = next_handle + 1
                           /\ calls' = Append(calls, i + 1)
                           /\ <<lang, next_handle>> \in got'
                  /\ pc' = "detect_loop" =>
                        /\ Len(detect'.all_results) = i + 1
                        /\ detect'.all_results[i + 1].language_code = lang
                        /\ \A j \in 1..i :
                            detect'.all_results[j] = detect.all_results[j]]_vars

\* auto_detect returned after trying the same language twice: the first
\* iteration had the only engine built, the second took it from the cache
C26_Witness ==
    /\ unit = "auto_detect"
    /\ call = "auto_detect"
    /\ pc = "returned"
    /\ ret # <<>>
    /\ Len(detect.candidates) = 2
    /\ detect.candidates[1] = detect.candidates[2]
    /\ calls = <<1, 2>>
    /\ next_handle = 2
    /\ got = {<<detect.candidates[1], 1>>}
    /\ built = {<<detect.candidates[1], 1>>}

\* C27: on a BatchOCR, predict is invoked only while the processor holds
\* an engine that initialize() built and cleanup() has not released;
\* process_image and process_directory called while it is not initialized
\* (before initialize(), after cleanup(), after the with-block was left)
\* raise OCRInitError, call predict on nothing and return nothing.
C27_EngineUsedOnlyWhileReady ==
    /\ [](unit = "BatchOCR" =>
            /\ calls # <<>> =>
                /\ call \in {"process_image", "process_directory"}
                /\ initialized
                /\ ocr \in Handles
                /\ ocr < next_handle
                /\ released[ocr] = 0
            /\ (call \in {"process_image", "process_directory"}
                    /\ pc = "raised" /\ exc[1].type = "OCRInitError") =>
                /\ ~initialized
                /\ ocr = 0
                /\ calls = <<>>
                /\ ret = <<>>
                /\ batch_result = BatchResult(0))
    /\ [][(unit = "BatchOCR" /\ Idle /\ ~initialized
                /\ call' \in {"process_image", "process_directory"}
                /\ <<call', pc', exc', ret', calls', prev'>>
                        # <<call, pc, exc, ret, calls, prev>>)
            => /\ pc' = "raised"
               /\ exc' # <<>>
               /\ exc'[1].type = "OCRInitError"
               /\ ret' = <<>>
               /\ calls' = <<>>
               /\ UNCHANGED <<ocr, initialized, next_handle, released>>]_vars

\* process_image was called after the with-block around a BatchOCR had
\* been left, and raised OCRInitError
C27_Witness ==
    /\ unit = "BatchOCR"
    /\ scope.state = "exited"
    /\ scope.entered
    /\ prev[1] = "__exit__"
    /\ call = "process_image"
    /\ pc = "raised"
    /\ exc # <<>>
    /\ exc[1].type = "OCRInitError"
    /\ released[1] = 1

\* C28: for the language a caller hands to _get_or_create_engine,
\* is_supported_language(lang) holds exactly when normalize_language(lang)
\* returns a code, that code is a key of SUPPORTED_LANGUAGES, and a
\* spelling that normalize_language resolves is not turned down with
\* OCRConfigError.
C28_ValidationAgreesWithNormalisation ==
    (unit = "MultilingualOCR" /\ call = "_get_or_create_engine"
        /\ arg_lang # "") =>
        /\ is_supported_language(arg_lang)
                <=> normalize_language(arg_lang).exc = <<>>
        /\ normalize_language(arg_lang).exc = <<>> =>
            /\ normalize_language(arg_lang).ret[1] \in SUPPORTED_LANGUAGES
            /\ ~(pc = "raised" /\ exc[1].type = "OCRConfigError")

\* C29: a _get_or_create_engine call in which the constructor fails raises
\* OCRInitError (E103 for a missing dependency, E101 otherwise) and leaves
\* the cache as it was: no entry for the key, the other entries untouched,
\* no engine built; the next _get_or_create_engine call for that key
\* invokes the constructor again and either fails the same way or returns
\* and caches the engine just built.
C29_FailedConstructionLeavesCache ==
    /\ []((unit = "MultilingualOCR" /\ call = "_get_or_create_engine"
                /\ pc = "raised" /\ exc[1].type = "OCRInitError") =>
            /\ arg_lang # ""
            /\ normalize_language(arg_lang).ret[1] \notin DOMAIN engine_cache
            /\ ret = <<>>
            /\ exc[1].cause \in {"ImportError", "RuntimeError"}
            /\ exc[1].error_code
                = IF exc[1].cause = "ImportError" THEN "E103" ELSE "E101"
            /\ \A k \in DOMAIN engine_cache :
                /\ engine_cache[k] \in Handles
                /\ <<k, engine_cache[k]>> \in built)
    /\ [][(unit = "MultilingualOCR" /\ call' = "_get_or_create_engine"
                /\ pc' = "raised" /\ exc'[1].type = "OCRInitError")
            => /\ engine_cache' = engine_cache
               /\ next_handle' = next_handle
               /\ built' = built
               /\ released' = released]_vars
    /\ [][(unit = "MultilingualOCR" /\ call = "_get_or_create_engine"
                /\ pc = "raised" /\ exc[1].type = "OCRInitError"
                /\ call' = "_get_or_create_engine"
                /\ arg_lang' # ""
                /\ normalize_language(arg_lang').ret
                        = normalize_language(arg_lang).ret
                /\ is_supported_language(arg_lang'))
            => \/ /\ pc' = "raised"
                  /\ exc'[1].type = "OCRInitError"
                  /\ engine_cache' = engine_cache
               \/ /\ pc' = "returned"
                  /\ ret' = <<next_handle>>
                  /\ next_handle' = next_handle + 1
                  /\ engine_cache'
                        = cache_put(engine_cache,
                                    normalize_language(arg_lang).ret[1],
                                    next_handle)]_vars

\* with an engine cached for 'ch', the constructor failed for 'en' for
\* want of a dependency
C29_Witness ==
    /\ unit = "MultilingualOCR"
    /\ call = "_get_or_create_engine"
    /\ pc = "raised"
    /\ exc # <<>>
    /\ exc[1].type = "OCRInitError"
    /\ exc[1].error_code = "E103"
    /\ arg_lang = "en"
    /\ DOMAIN engine_cache = {"ch"}
    /\ engine_cache["ch"] = 1
    /\ next_handle = 2

\* C30: a lifecycle manager can be used again after cleanup(): the
\* initialize() that follows a cleanup() invokes the factory once more and,
\* if the factory succeeds, stores and hands out the engine just built;
\* no initialize(), at any later time, hands out an engine that cleanup()
\* has released.
C30_ReusableAfterCleanup ==
    /\ [](unit \in ManagerUnits =>
            /\ (call = "initialize" /\ pc = "returned") =>
                /\ ocr \in Handles
                /\ released[ocr] = 0
                /\ ret = <<IF unit = "BatchOCR" THEN "self" ELSE ocr>>
            /\ \A h \in seg_handles : released[h] = 0
            /\ \A h \in Handles : released[h] >= 1 => (h # ocr /\ h < next_handle))
    /\ [][(unit \in ManagerUnits /\ call = "cleanup" /\ pc = "returned"
                /\ call' = "initialize")
            => \/ /\ pc' = "returned"
                  /\ ocr' = next_handle
                  /\ initialized'
                  /\ next_handle' = next_handle + 1
                  /\ seg_built' = 1
                  /\ released' = released
                  /\ released[ocr'] = 0
               \/ /\ pc' = "raised"
                  /\ exc'[1].type = "OCRInitError"
                  /\ ocr' = 0
                  /\ ~initialized'
                  /\ next_handle' = next_handle]_vars

\* the second engine of a manager: built by the initialize() that followed
\* the cleanup() that released the first
C30_Witness ==
    /\ unit \in ManagerUnits
    /\ prev = <<"cleanup", "returned">>
    /\ call = "initialize"
    /\ pc = "returned"
    /\ released[1] = 1
    /\ ocr = 2
    /\ released[2] = 0
    /\ initialized

====
